---- MODULE Spec2Model ----
(***************************************************************************)
(* Ingestion of evaluator output into the relational store                 *)
(* (shared/evaluation.py): the record parser and its fixups, the identity  *)
(* key, the entity extractors and SyncBatchAttributeIngester.ingest, whose *)
(* bulk store operations are the steps of the state machine.               *)
(*                                                                         *)
(* Conventions.  Python's None is the value None below; a field that may   *)
(* be None ranges over strings, and an optional object is a record with    *)
(* the flag `has`.  GitHub ids are written as numerals.  A                 *)
(* dotted attribute string "foo.x86_64-linux" is the sequence of its       *)
(* segments <<"foo", "x86_64-linux">> (a system name holds no dot).  A     *)
(* nullable foreign key is <<>> (NULL) or <<pk>>.  A Python dict is the    *)
(* sequence of its items in insertion order.                               *)
(***************************************************************************)
EXTENDS Integers, Sequences, FiniteSets, TLC

VARIABLES db, ing, runs, line, parsed, pair, keyed, evals, gc, web

vars == <<db, ing, runs, line, parsed, pair, keyed, evals, gc, web>>

\* What the ingester never touches: the parser's and the key function's
\* state, the states of the evaluations, the garbage collector, the web
\* application.
aux == <<line, parsed, pair, keyed, evals, gc, web>>

\* Attributes ingested in one behaviour, summed over all its ingestion runs.
MaxAttributes == 3

None == "None"

BoundedSeq(S, n) == UNION {[1..k -> S] : k \in 0..n}

Range(s) == {s[i] : i \in 1..Len(s)}

-----------------------------------------------------------------------------
(* Typed attribute records (the dataclasses)                               *)

MaintainerAttribute(name, github, github_id) ==
    [name |-> name, github |-> github, github_id |-> github_id,
     email |-> None, matrix |-> None]

LicenseAttribute(full_name, spdx_id) ==
    [full_name |-> full_name, deprecated |-> FALSE, free |-> FALSE,
     redistributable |-> FALSE, short_name |-> None, spdx_id |-> spdx_id,
     url |-> None]

MetadataAttribute(name, maintainers, license) ==
    [outputs_to_install |-> <<>>, available |-> TRUE, broken |-> FALSE,
     unfree |-> FALSE, unsupported |-> FALSE, insecure |-> FALSE,
     main_program |-> None, position |-> None, homepage |-> None,
     description |-> None, name |-> name, maintainers |-> maintainers,
     license |-> license, platforms |-> <<>>, known_vulnerabilities |-> <<>>]

\* meta is a record with has = FALSE for None, or has = TRUE and the block in v.
NoMeta == [has |-> FALSE]

SomeMeta(m) == [has |-> TRUE, v |-> m]

EvaluatedAttribute(attr, name, drv_path, meta, system) ==
    [attr |-> attr, attr_path |-> attr, name |-> name, drv_path |-> drv_path,
     meta |-> meta, outputs |-> <<>>, system |-> system]

\* x or None
OrNone(x) == IF x = "" \/ x = None THEN None ELSE x

\* The key with the metadata name as it stands
as_key_raw(self) ==
    <<self.drv_path, self.attr, self.name,
      IF self.meta.has THEN self.meta.v.name ELSE None>>

\* The identity key taking the system into account
as_key_system(self) ==
    <<self.drv_path, self.attr, self.name,
      IF self.meta.has THEN OrNone(self.meta.v.name) ELSE None, self.system>>

as_key(self) ==
    <<self.drv_path, self.attr, self.name,
      IF self.meta.has THEN OrNone(self.meta.v.name) ELSE None>>

-----------------------------------------------------------------------------
(* Raw evaluator records.  A JSON object is a record plus the set `keys`   *)
(* of the optional keys it carries; a JSON value whose type the code       *)
(* sniffs (the license field) is tagged with its type.                     *)

RawMaintainer(name, github, githubId) ==
    [shortName |-> None, members |-> <<>>, name |-> name, github |-> github,
     githubId |-> githubId]

RawTeam(shortName, members) ==
    [shortName |-> shortName, members |-> members, name |-> None,
     github |-> None, githubId |-> None]

RawLicense(fullName, spdxId) == [fullName |-> fullName, spdxId |-> spdxId]

LicenseStr(s) == [t |-> "str", s |-> s, l |-> <<>>]

LicenseObj(o) == [t |-> "obj", s |-> None, l |-> <<o>>]

LicenseList(l) == [t |-> "list", s |-> None, l |-> l]

RawMeta(keys, name, maintainers, license) ==
    [keys |-> keys, name |-> name, maintainers |-> maintainers,
     license |-> license]

SuccessKeys == {"name", "drv_path", "meta", "outputs", "system"}

RawRecord(keys, attr, error, drv_path, meta, system) ==
    [keys |-> keys, attr |-> attr, attr_path |-> attr, error |-> error,
     name |-> "foo-1.0", drv_path |-> drv_path, meta |-> meta,
     system |-> system]

\* raw.get(k)
RawGet(raw, k) == IF k \in raw.keys THEN raw[k] ELSE None

-----------------------------------------------------------------------------
(* fixup_evaluated_attribute: the in-place repairs of the raw dict, then   *)
(* EvaluatedAttribute.from_dict                                            *)

\* The license fixup taking "unknown" for a license name
FixupLicense_unknown(lic) ==
    IF lic.t = "list" THEN lic
    ELSE IF lic.t = "str" THEN LicenseList(<<RawLicense(lic.s, None)>>)
    ELSE LicenseList(<<lic.l[1]>>)

FixupLicense(lic) ==
    IF lic.t = "list" THEN lic
    ELSE IF lic.t = "str" /\ lic.s = "unknown" THEN LicenseList(<<>>)
    ELSE IF lic.t = "str" THEN LicenseList(<<RawLicense(lic.s, None)>>)
    ELSE LicenseList(<<lic.l[1]>>)

\* The team expansion dropping a team together with its members
RECURSIVE ExpandMaintainers_drop(_, _, _)
ExpandMaintainers_drop(maintainers, i, new_maintainers) ==
    IF i > Len(maintainers) THEN new_maintainers
    ELSE LET maintainer == maintainers[i] IN
         ExpandMaintainers_drop(maintainers, i + 1,
            IF maintainer.shortName # None
            THEN new_maintainers
            ELSE Append(new_maintainers, maintainer))

\* The team expansion keeping the team entry in front of its members
RECURSIVE ExpandMaintainers_keep(_, _, _)
ExpandMaintainers_keep(maintainers, i, new_maintainers) ==
    IF i > Len(maintainers) THEN new_maintainers
    ELSE LET maintainer == maintainers[i] IN
         ExpandMaintainers_keep(maintainers, i + 1,
            IF maintainer.shortName # None
            THEN Append(new_maintainers, maintainer) \o maintainer.members
            ELSE Append(new_maintainers, maintainer))

RECURSIVE ExpandMaintainers(_, _, _)
ExpandMaintainers(maintainers, i, new_maintainers) ==
    IF i > Len(maintainers) THEN new_maintainers
    ELSE LET maintainer == maintainers[i] IN
         ExpandMaintainers(maintainers, i + 1,
            IF maintainer.shortName # None
            THEN new_maintainers \o maintainer.members
            ELSE Append(new_maintainers, maintainer))

\* The raw dict as fixup_evaluated_attribute leaves it.
FixupRaw(raw) ==
    IF "meta" \notin raw.keys \/ ~raw.meta.has THEN raw
    ELSE LET m0 == raw.meta.v
             m1 == IF "license" \in m0.keys
                   THEN [m0 EXCEPT !.license = FixupLicense(m0.license)]
                   ELSE m0
             m2 == IF "maintainers" \in m1.keys
                   THEN [m1 EXCEPT !.maintainers =
                            ExpandMaintainers(m1.maintainers, 1, <<>>)]
                   ELSE m1
         IN [raw EXCEPT !.meta = SomeMeta(m2)]

MaintainerFromDict(m) == MaintainerAttribute(m.name, m.github, m.githubId)

LicenseFromDict(l) == LicenseAttribute(l.fullName, l.spdxId)

MetaFromDict(m) ==
    MetadataAttribute(
        IF "name" \in m.keys THEN m.name ELSE None,
        IF "maintainers" \in m.keys
        THEN [i \in 1..Len(m.maintainers) |-> MaintainerFromDict(m.maintainers[i])]
        ELSE <<>>,
        IF "license" \in m.keys
        THEN [i \in 1..Len(m.license.l) |-> LicenseFromDict(m.license.l[i])]
        ELSE <<>>)

\* EvaluatedAttribute.from_dict: every field of the dataclass is required.
FromDictRaises(raw) == ~(SuccessKeys \subseteq raw.keys)

FromDict(raw) ==
    EvaluatedAttribute(raw.attr, raw.name, raw.drv_path,
        IF raw.meta.has THEN SomeMeta(MetaFromDict(raw.meta.v)) ELSE NoMeta,
        raw.system)

fixup_evaluated_attribute(raw) == FromDict(FixupRaw(raw))

-----------------------------------------------------------------------------
(* parse_evaluation_result                                                 *)

NoEvaluation == [has |-> FALSE]

PartialEvaluatedAttribute(attr, attr_path, error, evaluation) ==
    [attr |-> attr, attr_path |-> attr_path, error |-> error,
     evaluation |-> evaluation]

Raised(exc) == [raised |-> TRUE, exc |-> exc]

Returned(v) == [raised |-> FALSE, value |-> v]

\* A line is text that json.loads accepts (json = TRUE, with the object it
\* denotes) or rejects.
MalformedLine == [json |-> FALSE]

JsonLine(raw) == [json |-> TRUE, raw |-> raw]

\* The parser deciding on the presence of the error key
parse_evaluation_result_haskey(l) ==
    IF ~l.json THEN Raised("JSONDecodeError")
    ELSE LET raw == l.raw IN
         IF "error" \notin raw.keys
         THEN IF FromDictRaises(raw) THEN Raised("MissingFields")
              ELSE Returned(PartialEvaluatedAttribute(raw.attr, raw.attr_path,
                        None, [has |-> TRUE, v |-> fixup_evaluated_attribute(raw)]))
         ELSE Returned(PartialEvaluatedAttribute(raw.attr, raw.attr_path,
                        None, NoEvaluation))

\* The parser answering a line that is not JSON with a failure marker
parse_evaluation_result_marker(l) ==
    IF ~l.json
    THEN Returned(PartialEvaluatedAttribute(None, None, None, NoEvaluation))
    ELSE LET raw == l.raw IN
         IF RawGet(raw, "error") = None
         THEN IF FromDictRaises(raw) THEN Raised("MissingFields")
              ELSE Returned(PartialEvaluatedAttribute(raw.attr, raw.attr_path,
                        None, [has |-> TRUE, v |-> fixup_evaluated_attribute(raw)]))
         ELSE Returned(PartialEvaluatedAttribute(raw.attr, raw.attr_path,
                        None, NoEvaluation))

parse_evaluation_result(l) ==
    IF ~l.json THEN Raised("JSONDecodeError")
    ELSE LET raw == l.raw IN
         IF RawGet(raw, "error") = None
         THEN IF FromDictRaises(raw) THEN Raised("MissingFields")
              ELSE Returned(PartialEvaluatedAttribute(raw.attr, raw.attr_path,
                        None, [has |-> TRUE, v |-> fixup_evaluated_attribute(raw)]))
         ELSE Returned(PartialEvaluatedAttribute(raw.attr, raw.attr_path,
                        None, NoEvaluation))

-----------------------------------------------------------------------------
(* The evaluator output explored                                           *)

FooX86 == <<"foo", "x86_64-linux">>

Alice7Old == RawMaintainer("Old", "alice", "7")

Alice7New == RawMaintainer("New", "alice", "7")

Bob42 == RawMaintainer("Bob", "bob", "42")

NoGithubId == RawMaintainer("Ghost", None, None)

MitA == RawLicense("MIT License", "MIT")

MitB == RawLicense("Expat", "MIT")

NoSpdx == RawLicense("Custom", None)

AllMetaKeys == {"name", "maintainers", "license"}

\* Metadata blocks of the records that are ingested.
IngestMetas ==
    {NoMeta,
     SomeMeta(RawMeta(AllMetaKeys, "", <<>>, LicenseStr("unknown"))),
     SomeMeta(RawMeta(AllMetaKeys, "foo", <<Alice7New, NoGithubId, Bob42>>,
                      LicenseList(<<NoSpdx, MitB>>))),
     SomeMeta(RawMeta(AllMetaKeys, "foo", <<Alice7Old, Alice7New>>,
                      LicenseList(<<MitA, MitB>>)))}

IngestRaws ==
    {RawRecord(SuccessKeys, FooX86, None, "/nix/store/aaa", m, "x86_64-linux") :
        m \in IngestMetas}
    \cup
    {RawRecord(SuccessKeys, FooX86, None, "/nix/store/aaa",
               SomeMeta(RawMeta({"maintainers", "license"}, None, <<Alice7Old>>,
                                LicenseObj(MitA))),
               "aarch64-linux")}

\* The parsed attributes a batch is made of.
Attributes ==
    {parse_evaluation_result(JsonLine(r)).value.evaluation.v : r \in IngestRaws}

\* Metadata blocks of the lines given to the parser: every license shape, a
\* team, absent keys.
ParseMetas ==
    IngestMetas
    \cup {SomeMeta(RawMeta({"maintainers", "license"}, None, <<Alice7Old>>,
                           LicenseObj(MitA))),
          SomeMeta(RawMeta({"name"}, "foo", <<>>, LicenseList(<<>>))),
          SomeMeta(RawMeta(AllMetaKeys, "foo",
                           <<RawTeam("team", <<Bob42, Alice7Old>>), Alice7New>>,
                           LicenseStr("MIT License")))}

ParseRaws ==
    {RawRecord(k, FooX86, e, "/nix/store/aaa", m, "x86_64-linux") :
        k \in {SuccessKeys \cup {"error"}, SuccessKeys, {"error"}, {},
               (SuccessKeys \ {"name"}) \cup {"error"}},
        e \in {None, "boom", ""},
        m \in ParseMetas}

Lines == {MalformedLine} \cup {JsonLine(r) : r \in ParseRaws}

-----------------------------------------------------------------------------
(* Python dicts, in insertion order                                        *)

DictHas(d, k) == \E i \in 1..Len(d) : d[i].k = k

\* d[k] = v that never finds k
DictSet_append(d, k, v) == Append(d, [k |-> k, v |-> v])

\* d.setdefault(k, v)
DictSet_keep(d, k, v) ==
    IF DictHas(d, k) THEN d ELSE Append(d, [k |-> k, v |-> v])

DictSet(d, k, v) ==
    IF DictHas(d, k)
    THEN [i \in 1..Len(d) |-> IF d[i].k = k THEN [k |-> k, v |-> v] ELSE d[i]]
    ELSE Append(d, [k |-> k, v |-> v])

DictKeys(d) == [i \in 1..Len(d) |-> d[i].k]

DictValues(d) == [i \in 1..Len(d) |-> d[i].v]

RECURSIVE DictUpdate(_, _, _, _)
\* for o in objs: d[o[field]] = o
DictUpdate(d, objs, field, i) ==
    IF i > Len(objs) THEN d
    ELSE DictUpdate(DictSet(d, objs[i][field], objs[i]), objs, field, i + 1)

-----------------------------------------------------------------------------
(* Entity extractors                                                       *)

NixMaintainer(m) ==
    [github_id |-> m.github_id, github |-> m.github, email |-> m.email,
     matrix |-> m.matrix, name |-> m.name]

NixLicense(lic) ==
    [spdx_id |-> lic.spdx_id, deprecated |-> lic.deprecated, free |-> lic.free,
     redistributable |-> lic.redistributable, full_name |-> lic.full_name,
     short_name |-> lic.short_name, url |-> lic.url]

NixDerivationMeta(metadata) ==
    [name |-> metadata.name, insecure |-> metadata.insecure,
     available |-> metadata.available, broken |-> metadata.broken,
     unfree |-> metadata.unfree, unsupported |-> metadata.unsupported,
     homepage |-> metadata.homepage, description |-> metadata.description,
     main_program |-> metadata.main_program, position |-> metadata.position,
     known_vulnerabilities |-> metadata.known_vulnerabilities]

RECURSIVE parse_maintainers_keep(_, _, _, _)
\* parse_maintainers without the check of the GitHub ID
parse_maintainers_keep(maintainers, i, bulk, seen) ==
    IF i > Len(maintainers) THEN bulk
    ELSE LET m == maintainers[i] IN
         IF m.github_id \in seen
         THEN parse_maintainers_keep(maintainers, i + 1, bulk, seen)
         ELSE parse_maintainers_keep(maintainers, i + 1,
                  Append(bulk, NixMaintainer(m)), seen \cup {m.github_id})

RECURSIVE parse_maintainers_repeat(_, _, _, _)
\* parse_maintainers without the set of the ids seen
parse_maintainers_repeat(maintainers, i, bulk, seen) ==
    IF i > Len(maintainers) THEN bulk
    ELSE LET m == maintainers[i] IN
         IF m.github_id = None
         THEN parse_maintainers_repeat(maintainers, i + 1, bulk, seen)
         ELSE parse_maintainers_repeat(maintainers, i + 1,
                  Append(bulk, NixMaintainer(m)), seen)

RECURSIVE parse_maintainers_from(_, _, _, _)
parse_maintainers_from(maintainers, i, bulk, seen) ==
    IF i > Len(maintainers) THEN bulk
    ELSE LET m == maintainers[i] IN
         IF m.github_id = None
         THEN parse_maintainers_from(maintainers, i + 1, bulk, seen)
         ELSE IF m.github_id \in seen
         THEN parse_maintainers_from(maintainers, i + 1, bulk, seen)
         ELSE parse_maintainers_from(maintainers, i + 1,
                  Append(bulk, NixMaintainer(m)), seen \cup {m.github_id})

parse_maintainers(maintainers) == parse_maintainers_from(maintainers, 1, <<>>, {})

RECURSIVE parse_licenses_from(_, _, _, _)
parse_licenses_from(licenses, i, bulk, seen) ==
    IF i > Len(licenses) THEN bulk
    ELSE LET lic == licenses[i] IN
         IF lic.spdx_id = None
         THEN parse_licenses_from(licenses, i + 1, bulk, seen)
         ELSE IF lic.spdx_id \in seen
         THEN parse_licenses_from(licenses, i + 1, bulk, seen)
         ELSE parse_licenses_from(licenses, i + 1,
                  Append(bulk, NixLicense(lic)), seen \cup {lic.spdx_id})

parse_licenses(licenses) == parse_licenses_from(licenses, 1, <<>>, {})

parse_meta(metadata) ==
    [meta |-> NixDerivationMeta(metadata),
     maintainers |-> parse_maintainers(metadata.maintainers),
     licenses |-> parse_licenses(metadata.license)]

\* attr.removesuffix("." + system)
\* The stripping of the last segment whatever the system
RemoveSuffix_last(attr, system) ==
    IF Len(attr) >= 2 THEN SubSeq(attr, 1, Len(attr) - 1) ELSE attr

RemoveSuffix(attr, system) ==
    IF Len(attr) >= 2 /\ attr[Len(attr)] = system
    THEN SubSeq(attr, 1, Len(attr) - 1)
    ELSE attr

\* metadata is <<>> or <<i>>, the i-th object of the run's metadata list.
make_derivation_shell(attribute, metadata, parent_evaluation) ==
    [attribute |-> RemoveSuffix(attribute.attr, attribute.system),
     derivation_path |-> attribute.drv_path, name |-> attribute.name,
     metadata |-> metadata, system |-> attribute.system,
     parent_evaluation |-> parent_evaluation]

-----------------------------------------------------------------------------
(* ingest, first pass: the loop over self.evaluations                      *)

EmptyLocals ==
    [bulk_derivations |-> <<>>, bulk_maintainers |-> <<>>,
     bulk_licenses |-> <<>>, metadata |-> <<>>, meta_maintainers |-> <<>>,
     meta_licenses |-> <<>>]

\* The loop body without the reset of drv_metadata: a record without
\* metadata takes the metadata object of the one before it
CollectOne_previous(acc, attribute, parent_evaluation) ==
    IF attribute.meta.has
    THEN LET pm == parse_meta(attribute.meta.v) IN
         [bulk_derivations |->
              DictSet(acc.bulk_derivations, as_key(attribute),
                  make_derivation_shell(attribute, <<Len(acc.metadata) + 1>>,
                                        parent_evaluation)),
          bulk_maintainers |->
              DictUpdate(acc.bulk_maintainers, pm.maintainers, "github_id", 1),
          bulk_licenses |->
              DictUpdate(acc.bulk_licenses, pm.licenses, "spdx_id", 1),
          metadata |-> Append(acc.metadata, pm.meta),
          meta_maintainers |-> Append(acc.meta_maintainers, pm.maintainers),
          meta_licenses |-> Append(acc.meta_licenses, pm.licenses)]
    ELSE [acc EXCEPT !.bulk_derivations =
              DictSet(acc.bulk_derivations, as_key(attribute),
                  make_derivation_shell(attribute,
                      IF acc.metadata = <<>> THEN <<>> ELSE <<Len(acc.metadata)>>,
                      parent_evaluation))]

CollectOne(acc, attribute, parent_evaluation) ==
    IF attribute.meta.has
    THEN LET pm == parse_meta(attribute.meta.v) IN
         [bulk_derivations |->
              DictSet(acc.bulk_derivations, as_key(attribute),
                  make_derivation_shell(attribute, <<Len(acc.metadata) + 1>>,
                                        parent_evaluation)),
          bulk_maintainers |->
              DictUpdate(acc.bulk_maintainers, pm.maintainers, "github_id", 1),
          bulk_licenses |->
              DictUpdate(acc.bulk_licenses, pm.licenses, "spdx_id", 1),
          metadata |-> Append(acc.metadata, pm.meta),
          meta_maintainers |-> Append(acc.meta_maintainers, pm.maintainers),
          meta_licenses |-> Append(acc.meta_licenses, pm.licenses)]
    ELSE [acc EXCEPT !.bulk_derivations =
              DictSet(acc.bulk_derivations, as_key(attribute),
                  make_derivation_shell(attribute, <<>>, parent_evaluation))]

RECURSIVE Collect(_, _, _, _)
Collect(evaluations, i, acc, parent_evaluation) ==
    IF i > Len(evaluations) THEN acc
    ELSE Collect(evaluations, i + 1,
                 CollectOne(acc, evaluations[i], parent_evaluation),
                 parent_evaluation)

-----------------------------------------------------------------------------
(* The store: six tables of rows and the primary-key sequences             *)

Tables ==
    {"NixMaintainer", "NixLicense", "NixDerivationMeta", "maintainers_through",
     "licenses_through", "NixDerivation"}

EmptyStore == [rows |-> [t \in Tables |-> {}], next_pk |-> [t \in Tables |-> 1]]

WithPk(obj, pk) ==
    [f \in DOMAIN obj \cup {"pk"} |-> IF f = "pk" THEN pk ELSE obj[f]]

\* bulk_create without conflict handling
UpsertOne_insert(store, table, obj, unique_field, update_fields, update_conflicts) ==
    [rows |-> [store.rows EXCEPT ![table] =
                  @ \cup {WithPk(obj, store.next_pk[table])}],
     next_pk |-> [store.next_pk EXCEPT ![table] = @ + 1]]

\* bulk_create that updates on conflict under either policy
UpsertOne_update(store, table, obj, unique_field, update_fields, update_conflicts) ==
    LET rows == store.rows[table]
        hit == {r \in rows : r[unique_field] = obj[unique_field]}
    IN IF hit = {}
       THEN [rows |-> [store.rows EXCEPT ![table] =
                          rows \cup {WithPk(obj, store.next_pk[table])}],
             next_pk |-> [store.next_pk EXCEPT ![table] = @ + 1]]
       ELSE [store EXCEPT !.rows[table] =
                (rows \ hit) \cup
                {[f \in DOMAIN r |-> IF f \in update_fields THEN obj[f] ELSE r[f]] :
                    r \in hit}]

\* bulk_create that replaces the row in conflict by a new row
UpsertOne_replace(store, table, obj, unique_field, update_fields, update_conflicts) ==
    LET rows == store.rows[table]
        hit == {r \in rows : r[unique_field] = obj[unique_field]}
    IN IF hit = {} \/ update_conflicts
       THEN [rows |-> [store.rows EXCEPT ![table] =
                          (rows \ hit) \cup {WithPk(obj, store.next_pk[table])}],
             next_pk |-> [store.next_pk EXCEPT ![table] = @ + 1]]
       ELSE store

\* One row of bulk_create(..., unique_fields, update_fields): INSERT ... ON
\* CONFLICT (unique_field) DO UPDATE SET update_fields (update_conflicts) or
\* DO NOTHING (ignore_conflicts).
UpsertOne(store, table, obj, unique_field, update_fields, update_conflicts) ==
    LET rows == store.rows[table]
        hit == {r \in rows : r[unique_field] = obj[unique_field]}
    IN IF hit = {}
       THEN [rows |-> [store.rows EXCEPT ![table] =
                          rows \cup {WithPk(obj, store.next_pk[table])}],
             next_pk |-> [store.next_pk EXCEPT ![table] = @ + 1]]
       ELSE IF update_conflicts
       THEN [store EXCEPT !.rows[table] =
                (rows \ hit) \cup
                {[f \in DOMAIN r |-> IF f \in update_fields THEN obj[f] ELSE r[f]] :
                    r \in hit}]
       ELSE store

RECURSIVE BulkCreateConflicts(_, _, _, _, _, _, _)
BulkCreateConflicts(store, table, objs, i, unique_field, update_fields, update_conflicts) ==
    IF i > Len(objs) THEN store
    ELSE BulkCreateConflicts(
             UpsertOne(store, table, objs[i], unique_field, update_fields,
                       update_conflicts),
             table, objs, i + 1, unique_field, update_fields, update_conflicts)

\* Plain bulk_create: the objects with the primary keys the store assigned.
Created(store, table, objs) ==
    [i \in 1..Len(objs) |-> WithPk(objs[i], store.next_pk[table] + i - 1)]

BulkCreate(store, table, objs) ==
    [rows |-> [store.rows EXCEPT ![table] = @ \cup Range(Created(store, table, objs))],
     next_pk |-> [store.next_pk EXCEPT ![table] = @ + Len(objs)]]

\* objects.in_bulk(keys, field_name=field)
InBulk(store, table, keys, field) ==
    [k \in {r[field] : r \in store.rows[table]} \cap Range(keys) |->
        CHOOSE r \in store.rows[table] : r[field] = k]

MaintainerUpdateFields == {"github", "email", "matrix", "name"}

LicenseUpdateFields ==
    {"deprecated", "free", "redistributable", "full_name", "short_name", "url"}

-----------------------------------------------------------------------------
(* ingest, second pass: the association rows and the derivation rows       *)

RECURSIVE MaintainersThroughs_first(_, _, _, _, _)
\* Every metadata row associated with the maintainers of the first attribute
MaintainersThroughs_first(db_metadata, meta_maintainers, db_maintainers, i, acc) ==
    IF i > Len(db_metadata) \/ i > Len(meta_maintainers) THEN acc
    ELSE MaintainersThroughs_first(db_metadata, meta_maintainers, db_maintainers, i + 1,
             acc \o [j \in 1..Len(meta_maintainers[1]) |->
                        [nixderivationmeta_id |-> db_metadata[i].pk,
                         nixmaintainer_id |->
                             db_maintainers[meta_maintainers[1][j].github_id].pk]])

RECURSIVE MaintainersThroughs(_, _, _, _, _)
MaintainersThroughs(db_metadata, meta_maintainers, db_maintainers, i, acc) ==
    IF i > Len(db_metadata) \/ i > Len(meta_maintainers) THEN acc
    ELSE MaintainersThroughs(db_metadata, meta_maintainers, db_maintainers, i + 1,
             acc \o [j \in 1..Len(meta_maintainers[i]) |->
                        [nixderivationmeta_id |-> db_metadata[i].pk,
                         nixmaintainer_id |->
                             db_maintainers[meta_maintainers[i][j].github_id].pk]])

RECURSIVE LicensesThroughs(_, _, _, _, _)
LicensesThroughs(db_metadata, meta_licenses, db_licenses, i, acc) ==
    IF i > Len(db_metadata) \/ i > Len(meta_licenses) THEN acc
    ELSE LicensesThroughs(db_metadata, meta_licenses, db_licenses, i + 1,
             acc \o [j \in 1..Len(meta_licenses[i]) |->
                        [nixderivationmeta_id |-> db_metadata[i].pk,
                         nixlicense_id |->
                             db_licenses[meta_licenses[i][j].spdx_id].pk]])

\* db_maintainers[...] or db_licenses[...] raises KeyError.
LookupFails(self) ==
    \/ \E i \in 1..Len(self.meta_maintainers) :
          \E j \in 1..Len(self.meta_maintainers[i]) :
              self.meta_maintainers[i][j].github_id \notin DOMAIN self.db_maintainers
    \/ \E i \in 1..Len(self.meta_licenses) :
          \E j \in 1..Len(self.meta_licenses[i]) :
              self.meta_licenses[i][j].spdx_id \notin DOMAIN self.db_licenses

\* A derivation shell saved with the position of its metadata object in the
\* run's list for foreign key
SavedShell_index(shell, db_metadata) == shell

\* A derivation shell as saved: the foreign key is read off the metadata
\* object, which has its primary key since the metadata bulk_create.
SavedShell(shell, db_metadata) ==
    [shell EXCEPT !.metadata =
        IF shell.metadata = <<>> THEN <<>>
        ELSE <<db_metadata[shell.metadata[1]].pk>>]

-----------------------------------------------------------------------------
(* Evaluations and channels                                                *)

MAJOR_CHANNELS == <<"unstable", "25.05">>

ChannelBranches == {<<"nixos", "unstable">>, <<"nixos", "25.05">>}

\* The policy keyed on the second major channel
IsRollingRelease_second(channel_branch) == MAJOR_CHANNELS[2] \in Range(channel_branch)

\* MAJOR_CHANNELS[0] in self.parent_evaluation.channel.channel_branch
IsRollingRelease(channel_branch) == MAJOR_CHANNELS[1] \in Range(channel_branch)

Batches(n) == BoundedSeq(Attributes, n) \ {<<>>}

-----------------------------------------------------------------------------
(* State                                                                   *)

\* A NixEvaluation row with its channel.
NixEvaluation(id, channel_branch) == [id |-> id, channel_branch |-> channel_branch]

NoEvaluationRow == NixEvaluation(0, <<>>)

Idle ==
    [pc |-> "idle", evaluations |-> <<>>, parent_evaluation |-> NoEvaluationRow,
     rolling_release |-> FALSE, bulk_derivations |-> <<>>,
     bulk_maintainers |-> <<>>, bulk_licenses |-> <<>>, metadata |-> <<>>,
     meta_maintainers |-> <<>>, meta_licenses |-> <<>>, db_maintainers |-> <<>>,
     db_licenses |-> <<>>, db_metadata |-> <<>>, licenses_throughs |-> <<>>,
     result |-> <<>>, pre |-> EmptyStore]

\* The state of each evaluation that has ended, by id.
NoStates == <<>>

\* The garbage collector when it is not running.
GcIdle == [pc |-> "idle", batch_size |-> 0, metas_list |-> <<>>, i |-> 0]

\* A request to the web application or a call of the listener that is not
\* under way: the Profile instance's counter, the Notification instance and
\* the result of count() it holds are not set.
NoRequest ==
    [pc |-> "idle", op |-> "none", unread_notifications_count |-> 0,
     notification |-> [id |-> 0, is_read |-> FALSE], count |-> 0]

\* No list of suggestions has been asked for.
NoSearch == [done |-> FALSE]

\* The Notification rows of one user, the user's Profile row, the processes
\* that serve the user; the suggestions by primary key and the last list of
\* suggestions served.
WebState(processes) ==
    [notifications |-> {}, next_id |-> 1, unread_notifications_count |-> 0,
     calls |-> 0, requests |-> [p \in processes |-> NoRequest],
     suggestions |-> <<>>, search |-> NoSearch]

NoWeb == WebState({})

NoLine == [read |-> FALSE]

NoResult == [done |-> FALSE]

NoPair == [drawn |-> FALSE]

NoKeys == [done |-> FALSE]

Init ==
    /\ db = EmptyStore
    /\ ing = [p \in {"ingester"} |-> Idle]
    /\ runs = [count |-> 0, attributes |-> 0]
    /\ line = NoLine
    /\ parsed = NoResult
    /\ pair = NoPair
    /\ keyed = NoKeys
    /\ evals = NoStates
    /\ gc = GcIdle
    /\ web = NoWeb

\* __init__ and the loop of ingest over the batch.
Construct(p, batch, channel_branch) ==
    LET acc == Collect(batch, 1, EmptyLocals, runs.count + 1) IN
    /\ ing' = [ing EXCEPT ![p] =
                 [Idle EXCEPT !.pc = "bulk_create_maintainers",
                              !.evaluations = batch,
                              !.parent_evaluation =
                                  NixEvaluation(runs.count + 1, channel_branch),
                              !.rolling_release = IsRollingRelease(channel_branch),
                              !.bulk_derivations = acc.bulk_derivations,
                              !.bulk_maintainers = acc.bulk_maintainers,
                              !.bulk_licenses = acc.bulk_licenses,
                              !.metadata = acc.metadata,
                              !.meta_maintainers = acc.meta_maintainers,
                              !.meta_licenses = acc.meta_licenses,
                              !.pre = db]]
    /\ runs' = [count |-> runs.count + 1,
                attributes |-> runs.attributes + Len(batch)]
    /\ UNCHANGED <<db, aux>>

\* An idle ingester is given a batch of the attributes left and an evaluation.
Ingest(p) ==
    /\ ing[p].pc = "idle"
    /\ runs.attributes < MaxAttributes
    /\ \E batch \in Batches(MaxAttributes - runs.attributes), b \in ChannelBranches :
          Construct(p, batch, b)

BulkCreateMaintainers(p) ==
    /\ ing[p].pc = "bulk_create_maintainers"
    /\ db' = BulkCreateConflicts(db, "NixMaintainer",
                 DictValues(ing[p].bulk_maintainers), 1, "github_id",
                 MaintainerUpdateFields, ing[p].rolling_release)
    /\ ing' = [ing EXCEPT ![p].pc = "in_bulk_maintainers"]
    /\ UNCHANGED <<runs, aux>>

InBulkMaintainers(p) ==
    /\ ing[p].pc = "in_bulk_maintainers"
    /\ ing' = [ing EXCEPT ![p].pc = "bulk_create_licenses",
                          ![p].db_maintainers =
                              InBulk(db, "NixMaintainer",
                                     DictKeys(ing[p].bulk_maintainers), "github_id")]
    /\ UNCHANGED <<db, runs, aux>>

BulkCreateLicenses(p) ==
    /\ ing[p].pc = "bulk_create_licenses"
    /\ db' = BulkCreateConflicts(db, "NixLicense",
                 DictValues(ing[p].bulk_licenses), 1, "spdx_id",
                 LicenseUpdateFields, ing[p].rolling_release)
    /\ ing' = [ing EXCEPT ![p].pc = "in_bulk_licenses"]
    /\ UNCHANGED <<runs, aux>>

InBulkLicenses(p) ==
    /\ ing[p].pc = "in_bulk_licenses"
    /\ ing' = [ing EXCEPT ![p].pc = "bulk_create_metadata",
                          ![p].db_licenses =
                              InBulk(db, "NixLicense",
                                     DictKeys(ing[p].bulk_licenses), "spdx_id")]
    /\ UNCHANGED <<db, runs, aux>>

\* The metadata objects numbered but not yet written
BulkCreateMetadata_deferred(p) ==
    /\ ing[p].pc = "bulk_create_metadata"
    /\ db' = [db EXCEPT !.next_pk["NixDerivationMeta"] = @ + Len(ing[p].metadata)]
    /\ ing' = [ing EXCEPT ![p].pc = "bulk_create_maintainers_through",
                          ![p].db_metadata =
                              Created(db, "NixDerivationMeta", ing[p].metadata)]
    /\ UNCHANGED <<runs, aux>>

BulkCreateMetadata(p) ==
    /\ ing[p].pc = "bulk_create_metadata"
    /\ db' = BulkCreate(db, "NixDerivationMeta", ing[p].metadata)
    /\ ing' = [ing EXCEPT ![p].pc = "bulk_create_maintainers_through",
                          ![p].db_metadata =
                              Created(db, "NixDerivationMeta", ing[p].metadata)]
    /\ UNCHANGED <<runs, aux>>

\* The loop that builds both lists of association rows, then the first insert.
BulkCreateMaintainersThrough(p) ==
    /\ ing[p].pc = "bulk_create_maintainers_through"
    /\ IF LookupFails(ing[p])
       THEN /\ ing' = [ing EXCEPT ![p].pc = "raised"]
            /\ UNCHANGED db
       ELSE /\ db' = BulkCreate(db, "maintainers_through",
                         MaintainersThroughs(ing[p].db_metadata,
                             ing[p].meta_maintainers, ing[p].db_maintainers, 1, <<>>))
            /\ ing' = [ing EXCEPT ![p].pc = "bulk_create_licenses_through",
                                  ![p].licenses_throughs =
                                      LicensesThroughs(ing[p].db_metadata,
                                          ing[p].meta_licenses, ing[p].db_licenses,
                                          1, <<>>)]
    /\ UNCHANGED <<runs, aux>>

BulkCreateLicensesThrough(p) ==
    /\ ing[p].pc = "bulk_create_licenses_through"
    /\ db' = BulkCreate(db, "licenses_through", ing[p].licenses_throughs)
    /\ ing' = [ing EXCEPT ![p].pc = "bulk_create_derivations"]
    /\ UNCHANGED <<runs, aux>>

\* The shells all saved with the first metadata object of the run
DerivationObjects_first(self) ==
    LET shells == DictValues(self.bulk_derivations) IN
    [i \in 1..Len(shells) |->
        IF shells[i].metadata = <<>> THEN shells[i]
        ELSE [shells[i] EXCEPT !.metadata = <<self.db_metadata[1].pk>>]]

DerivationObjects(self) ==
    LET shells == DictValues(self.bulk_derivations) IN
    [i \in 1..Len(shells) |-> SavedShell(shells[i], self.db_metadata)]

BulkCreateDerivations(p) ==
    /\ ing[p].pc = "bulk_create_derivations"
    /\ db' = BulkCreate(db, "NixDerivation", DerivationObjects(ing[p]))
    /\ ing' = [ing EXCEPT ![p].pc = "done",
                          ![p].result =
                              Created(db, "NixDerivation", DerivationObjects(ing[p]))]
    /\ UNCHANGED <<runs, aux>>

\* ingest returns; the ingester object is dropped.
Return(p) ==
    /\ ing[p].pc = "done"
    /\ ing' = [ing EXCEPT ![p] = Idle]
    /\ UNCHANGED <<db, runs, aux>>

WritePcs ==
    {"bulk_create_maintainers", "bulk_create_licenses", "bulk_create_metadata",
     "bulk_create_maintainers_through", "bulk_create_licenses_through",
     "bulk_create_derivations"}

\* A bulk store write fails (constraint violation, connection loss): the
\* statement has no effect and the exception leaves ingest.
StoreWriteFails(p) ==
    /\ ing[p].pc \in WritePcs
    /\ ing' = [ing EXCEPT ![p].pc = "raised"]
    /\ UNCHANGED <<db, runs, aux>>

\* The exception reaches the caller of ingest.
Propagate(p) ==
    /\ ing[p].pc = "raised"
    /\ ing' = [ing EXCEPT ![p] = Idle]
    /\ UNCHANGED <<db, runs, aux>>

Next ==
    \/ \E p \in DOMAIN ing : Ingest(p)
    \/ \E p \in DOMAIN ing : BulkCreateMaintainers(p)
    \/ \E p \in DOMAIN ing : InBulkMaintainers(p)
    \/ \E p \in DOMAIN ing : BulkCreateLicenses(p)
    \/ \E p \in DOMAIN ing : InBulkLicenses(p)
    \/ \E p \in DOMAIN ing : BulkCreateMetadata(p)
    \/ \E p \in DOMAIN ing : BulkCreateMaintainersThrough(p)
    \/ \E p \in DOMAIN ing : BulkCreateLicensesThrough(p)
    \/ \E p \in DOMAIN ing : BulkCreateDerivations(p)
    \/ \E p \in DOMAIN ing : Return(p)
    \/ \E p \in DOMAIN ing : StoreWriteFails(p)
    \/ \E p \in DOMAIN ing : Propagate(p)

Spec == Init /\ [][Next]_vars

-----------------------------------------------------------------------------
(* The parser on its own: a line is read, then parsed                      *)

InitParse ==
    /\ db = EmptyStore
    /\ ing = [p \in {"ingester"} |-> Idle]
    /\ runs = [count |-> 0, attributes |-> 0]
    /\ line = NoLine
    /\ parsed = NoResult
    /\ pair = NoPair
    /\ keyed = NoKeys
    /\ evals = NoStates
    /\ gc = GcIdle
    /\ web = NoWeb

ReadLine(l) ==
    /\ line' = [read |-> TRUE, text |-> l]
    /\ parsed' = NoResult
    /\ UNCHANGED <<web, db, ing, runs, evals, gc, pair, keyed>>

ParseLine ==
    /\ line.read
    /\ ~parsed.done
    /\ parsed' = [done |-> TRUE, result |-> parse_evaluation_result(line.text)]
    /\ UNCHANGED <<web, db, ing, runs, evals, gc, line, pair, keyed>>

NextParse ==
    \/ \E l \in Lines : ReadLine(l)
    \/ ParseLine

SpecParse == InitParse /\ [][NextParse]_vars

-----------------------------------------------------------------------------
(* The identity key on its own: two parsed attributes are drawn, then      *)
(* keyed                                                                   *)

KeyMetas ==
    {NoMeta}
    \cup {SomeMeta(MetadataAttribute(n, <<>>, <<>>)) : n \in {None, "", "foo", "bar"}}
    \cup {SomeMeta(MetadataAttribute("foo", <<MaintainerFromDict(Bob42)>>,
                                     <<LicenseFromDict(MitA)>>))}

KeyAttributes ==
    {EvaluatedAttribute(a, n, d, m, s) :
        a \in {FooX86, <<"bar">>}, n \in {"foo-1.0", "foo-2.0"},
        d \in {"/nix/store/aaa", "/nix/store/bbb"}, m \in KeyMetas,
        s \in {"x86_64-linux", "aarch64-linux"}}

InitKey ==
    /\ db = EmptyStore
    /\ ing = [p \in {"ingester"} |-> Idle]
    /\ runs = [count |-> 0, attributes |-> 0]
    /\ line = NoLine
    /\ parsed = NoResult
    /\ pair \in {[drawn |-> TRUE, a |-> a, b |-> b] :
                    a \in KeyAttributes, b \in KeyAttributes}
    /\ keyed = NoKeys
    /\ evals = NoStates
    /\ gc = GcIdle
    /\ web = NoWeb

AsKey ==
    /\ pair.drawn
    /\ ~keyed.done
    /\ keyed' = [done |-> TRUE, a |-> as_key(pair.a), b |-> as_key(pair.b)]
    /\ UNCHANGED <<web, db, ing, runs, evals, gc, line, parsed, pair>>

NextKey == AsKey

SpecKey == InitKey /\ [][NextKey]_vars

-----------------------------------------------------------------------------
(* The fixup on its own: a raw dict is repaired in place and converted,    *)
(* then the repaired dict is given to the fixup once more                  *)

\* Metadata blocks given to the fixup: also several teams, an empty team.
FixupMetas ==
    ParseMetas
    \cup {SomeMeta(RawMeta(AllMetaKeys, "foo",
                           <<Alice7New, RawTeam("none", <<>>),
                             RawTeam("solo", <<Bob42>>),
                             RawTeam("team", <<Alice7Old, NoGithubId>>)>>,
                           LicenseObj(NoSpdx))),
          SomeMeta(RawMeta({"name", "license"}, "foo", <<>>, LicenseStr("Expat")))}

FixupRaws ==
    {RawRecord(k, FooX86, None, "/nix/store/aaa", m, s) :
        k \in {SuccessKeys, SuccessKeys \cup {"error"}, SuccessKeys \ {"meta"},
               SuccessKeys \ {"name"}},
        m \in FixupMetas, s \in {"x86_64-linux", "aarch64-linux"}}

\* What one call leaves behind: the dict as mutated, and what is returned.
FixupCall(raw) ==
    LET fixed == FixupRaw(raw) IN
    [raw |-> fixed,
     out |-> IF FromDictRaises(fixed) THEN Raised("MissingFields")
             ELSE Returned(FromDict(fixed))]

InitFixup ==
    /\ db = EmptyStore
    /\ ing = [p \in {"ingester"} |-> Idle]
    /\ runs = [count |-> 0, attributes |-> 0]
    /\ line \in {[read |-> TRUE, text |-> JsonLine(r)] : r \in FixupRaws}
    /\ parsed = NoResult
    /\ pair = NoPair
    /\ keyed = NoKeys
    /\ evals = NoStates
    /\ gc = GcIdle
    /\ web = NoWeb

Fixup ==
    /\ line.read
    /\ ~parsed.done
    /\ parsed' = [done |-> TRUE, times |-> 1, now |-> FixupCall(line.text.raw)]
    /\ UNCHANGED <<web, db, ing, runs, evals, gc, line, pair, keyed>>

FixupAgain ==
    /\ parsed.done
    /\ parsed.times = 1
    /\ parsed' = [done |-> TRUE, times |-> 2, now |-> FixupCall(parsed.now.raw),
                  before |-> parsed.now]
    /\ UNCHANGED <<web, db, ing, runs, evals, gc, line, pair, keyed>>

NextFixup ==
    \/ Fixup
    \/ FixupAgain

SpecFixup == InitFixup /\ [][NextFixup]_vars

-----------------------------------------------------------------------------
(* Two ingesters at work on one store, for two evaluations                 *)

GplC == RawLicense("GNU GPL v3", "GPL-3.0")

\* The records the two batches are made of: one with GitHub ID 7 and license
\* MIT, one with GitHub ID 42 and license GPL-3.0.
ConcRaws ==
    {RawRecord(SuccessKeys, FooX86, None, "/nix/store/aaa",
               SomeMeta(RawMeta({"maintainers", "license"}, None, <<Alice7Old>>,
                                LicenseObj(MitA))),
               "aarch64-linux"),
     RawRecord(SuccessKeys, FooX86, None, "/nix/store/bbb",
               SomeMeta(RawMeta(AllMetaKeys, "foo", <<Bob42, NoGithubId>>,
                                LicenseObj(GplC))),
               "x86_64-linux")}

ConcAttributes ==
    {parse_evaluation_result(JsonLine(r)).value.evaluation.v : r \in ConcRaws}

\* The record of an earlier ingestion: GitHub ID 7 and license MIT with
\* other field values.
EarlierRaws ==
    {RawRecord(SuccessKeys, FooX86, None, "/nix/store/aaa",
               SomeMeta(RawMeta(AllMetaKeys, "foo", <<Alice7New>>,
                                LicenseList(<<MitB>>))),
               "x86_64-linux")}

EarlierAttributes ==
    {parse_evaluation_result(JsonLine(r)).value.evaluation.v : r \in EarlierRaws}

EarlierBatches(n) == BoundedSeq(EarlierAttributes, n) \ {<<>>}

ConcBatches(n) == BoundedSeq(ConcAttributes, n) \ {<<>>}

\* ingest from its first store operation to its return, on its own: the
\* store it leaves.
ingest(store, self) ==
    LET s1 == BulkCreateConflicts(store, "NixMaintainer",
                  DictValues(self.bulk_maintainers), 1, "github_id",
                  MaintainerUpdateFields, self.rolling_release)
        db_maintainers == InBulk(s1, "NixMaintainer",
                                 DictKeys(self.bulk_maintainers), "github_id")
        s2 == BulkCreateConflicts(s1, "NixLicense",
                  DictValues(self.bulk_licenses), 1, "spdx_id",
                  LicenseUpdateFields, self.rolling_release)
        db_licenses == InBulk(s2, "NixLicense",
                              DictKeys(self.bulk_licenses), "spdx_id")
        s3 == BulkCreate(s2, "NixDerivationMeta", self.metadata)
        db_metadata == Created(s2, "NixDerivationMeta", self.metadata)
        s4 == BulkCreate(s3, "maintainers_through",
                  MaintainersThroughs(db_metadata, self.meta_maintainers,
                                      db_maintainers, 1, <<>>))
        s5 == BulkCreate(s4, "licenses_through",
                  LicensesThroughs(db_metadata, self.meta_licenses,
                                   db_licenses, 1, <<>>))
        shells == DictValues(self.bulk_derivations)
    IN BulkCreate(s5, "NixDerivation",
           [i \in 1..Len(shells) |-> SavedShell(shells[i], db_metadata)])

\* An ingester without its store lookups: __init__ and the loop of ingest.
Ingester(batch, channel_branch, id) ==
    LET acc == Collect(batch, 1, EmptyLocals, id) IN
    [Idle EXCEPT !.evaluations = batch,
                 !.parent_evaluation = NixEvaluation(id, channel_branch),
                 !.rolling_release = IsRollingRelease(channel_branch),
                 !.bulk_derivations = acc.bulk_derivations,
                 !.bulk_maintainers = acc.bulk_maintainers,
                 !.bulk_licenses = acc.bulk_licenses,
                 !.metadata = acc.metadata,
                 !.meta_maintainers = acc.meta_maintainers,
                 !.meta_licenses = acc.meta_licenses]

\* The store is empty or as an earlier ingestion has left it.
InitConc ==
    /\ \/ /\ db = EmptyStore
          /\ runs = [count |-> 0, attributes |-> 0]
       \/ \E batch \in EarlierBatches(MaxAttributes - 2), b \in ChannelBranches :
             /\ db = ingest(EmptyStore, Ingester(batch, b, 1))
             /\ runs = [count |-> 1, attributes |-> Len(batch)]
    /\ ing = [p \in {"ingester", "other"} |-> Idle]
    /\ line = NoLine
    /\ parsed = NoResult
    /\ pair = NoPair
    /\ keyed = NoKeys
    /\ evals = NoStates
    /\ gc = GcIdle
    /\ web = NoWeb

\* An ingester is constructed and collects its batch while no other
\* ingester is between its first store operation and its return.
ConcIngest(p) ==
    /\ ing[p].pc = "idle"
    /\ runs.attributes < MaxAttributes
    /\ \A q \in DOMAIN ing : ing[q].pc \in {"idle", "bulk_create_maintainers"}
    /\ \E batch \in ConcBatches(MaxAttributes - runs.attributes),
          b \in ChannelBranches :
          Construct(p, batch, b)

\* Either ingester takes its next step; both stay as ingest has left them.
NextConc ==
    \/ \E p \in DOMAIN ing : ConcIngest(p)
    \/ \E p \in DOMAIN ing : BulkCreateMaintainers(p)
    \/ \E p \in DOMAIN ing : InBulkMaintainers(p)
    \/ \E p \in DOMAIN ing : BulkCreateLicenses(p)
    \/ \E p \in DOMAIN ing : InBulkLicenses(p)
    \/ \E p \in DOMAIN ing : BulkCreateMetadata(p)
    \/ \E p \in DOMAIN ing : BulkCreateMaintainersThrough(p)
    \/ \E p \in DOMAIN ing : BulkCreateLicensesThrough(p)
    \/ \E p \in DOMAIN ing : BulkCreateDerivations(p)

SpecConc == InitConc /\ [][NextConc]_vars

-----------------------------------------------------------------------------
(* garbage_collect_derivations: the command queries the metadata ids of    *)
(* the derivations of crashed and failed evaluations and the ids of the    *)
(* metadata without derivation, then deletes the metadata rows batch by    *)
(* batch; ingestion and the command take turns                             *)

\* The states in which an evaluation ends.
EvaluationStates == {"COMPLETED", "CRASHED", "FAILED"}

\* --batch_size
DefaultBatchSize == 10000

BatchSizes == {1, DefaultBatchSize}

\* The rows of a query in the order of their primary keys.
RECURSIVE SeqByPk(_)
SeqByPk(rows) ==
    IF rows = {} THEN <<>>
    ELSE LET r == CHOOSE x \in rows : \A y \in rows : x.pk <= y.pk
         IN <<r>> \o SeqByPk(rows \ {r})

\* NixDerivation.objects.filter(parent_evaluation__state__in=[CRASHED, FAILED])
CrashedDerivations(store, states) ==
    {d \in store.rows["NixDerivation"] :
        /\ d.parent_evaluation \in DOMAIN states
        /\ states[d.parent_evaluation] \in {"CRASHED", "FAILED"}}

\* NixDerivationMeta.objects.filter(derivation__isnull=True)
OrphanedMetadata(store) ==
    {m \in store.rows["NixDerivationMeta"] :
        \A d \in store.rows["NixDerivation"] : d.metadata # <<m.pk>>}

\* list(chain(metas, orphaned)): the metadata column of the derivations,
\* NULL included, then the ids of the orphaned metadata.
MetasList(store, states) ==
    LET derivations == SeqByPk(CrashedDerivations(store, states))
        orphaned == SeqByPk(OrphanedMetadata(store))
    IN [i \in 1..Len(derivations) |-> derivations[i].metadata]
       \o [i \in 1..Len(orphaned) |-> <<orphaned[i].pk>>]

\* NixDerivationMeta.objects.filter(id__in=batch).delete(): the metadata
\* rows go, and with them the derivations and association rows that refer
\* to them.
DeleteMetadata(store, batch) ==
    LET ids == {x[1] : x \in {y \in Range(batch) : y # <<>>}} IN
    [store EXCEPT
        !.rows["NixDerivationMeta"] = {m \in @ : m.pk \notin ids},
        !.rows["NixDerivation"] =
            {d \in @ : d.metadata = <<>> \/ d.metadata[1] \notin ids},
        !.rows["maintainers_through"] =
            {t \in @ : t.nixderivationmeta_id \notin ids},
        !.rows["licenses_through"] =
            {t \in @ : t.nixderivationmeta_id \notin ids}]

AllIdle == \A p \in DOMAIN ing : ing[p].pc = "idle"

\* Every evaluation that was ingested for has ended.
AllEnded == DOMAIN evals = 1..runs.count

\* The evaluation whose ingestion has returned or raised ends in a state.
EvaluationEnds(state) ==
    /\ AllIdle
    /\ gc.pc = "idle"
    /\ runs.count \notin DOMAIN evals
    /\ runs.count >= 1
    /\ evals' = [e \in DOMAIN evals \cup {runs.count} |->
                    IF e = runs.count THEN state ELSE evals[e]]
    /\ UNCHANGED <<web, db, ing, runs, line, parsed, pair, keyed, gc>>

\* handle up to the loop: both queries are evaluated by list().
GcQuery(batch_size) ==
    /\ gc.pc = "idle"
    /\ AllIdle
    /\ AllEnded
    /\ gc' = [pc |-> "delete", batch_size |-> batch_size,
              metas_list |-> MetasList(db, evals), i |-> 0]
    /\ UNCHANGED <<web, db, ing, runs, line, parsed, pair, keyed, evals>>

\* One round of the loop.
GcDelete ==
    /\ gc.pc = "delete"
    /\ gc.i < Len(gc.metas_list)
    /\ LET last == IF gc.i + gc.batch_size < Len(gc.metas_list)
                   THEN gc.i + gc.batch_size ELSE Len(gc.metas_list)
       IN db' = DeleteMetadata(db, SubSeq(gc.metas_list, gc.i + 1, last))
    /\ gc' = [gc EXCEPT !.i = @ + gc.batch_size]
    /\ UNCHANGED <<web, ing, runs, line, parsed, pair, keyed, evals>>

\* The loop is over: handle returns.
GcReturn ==
    /\ gc.pc = "delete"
    /\ gc.i >= Len(gc.metas_list)
    /\ gc' = [gc EXCEPT !.pc = "done"]
    /\ UNCHANGED <<web, db, ing, runs, line, parsed, pair, keyed, evals>>

\* The command's process exits.
GcExit ==
    /\ gc.pc = "done"
    /\ gc' = GcIdle
    /\ UNCHANGED <<web, db, ing, runs, line, parsed, pair, keyed, evals>>

\* A step of ingestion, between two runs of the command.
IngestStep ==
    /\ gc.pc = "idle"
    /\ \/ AllEnded /\ \E p \in DOMAIN ing : Ingest(p)
       \/ \E p \in DOMAIN ing : BulkCreateMaintainers(p)
       \/ \E p \in DOMAIN ing : InBulkMaintainers(p)
       \/ \E p \in DOMAIN ing : BulkCreateLicenses(p)
       \/ \E p \in DOMAIN ing : InBulkLicenses(p)
       \/ \E p \in DOMAIN ing : BulkCreateMetadata(p)
       \/ \E p \in DOMAIN ing : BulkCreateMaintainersThrough(p)
       \/ \E p \in DOMAIN ing : BulkCreateLicensesThrough(p)
       \/ \E p \in DOMAIN ing : BulkCreateDerivations(p)
       \/ \E p \in DOMAIN ing : Return(p)
       \/ \E p \in DOMAIN ing : StoreWriteFails(p)
       \/ \E p \in DOMAIN ing : Propagate(p)

NextGc ==
    \/ IngestStep
    \/ \E state \in EvaluationStates : EvaluationEnds(state)
    \/ \E batch_size \in BatchSizes : GcQuery(batch_size)
    \/ GcDelete
    \/ GcReturn
    \/ GcExit

SpecGc == Init /\ [][NextGc]_vars

-----------------------------------------------------------------------------
(* garbage_collect_derivations started while ingest is at work: the        *)
(* command and the ingester are two processes on one store, and each       *)
(* statement of either is a transaction of its own                         *)

\* handle up to the loop, an ingester being between two of its statements.
GcQueryConcurrent(batch_size) ==
    /\ gc.pc = "idle"
    /\ ~AllIdle
    /\ gc' = [pc |-> "delete", batch_size |-> batch_size,
              metas_list |-> MetasList(db, evals), i |-> 0]
    /\ UNCHANGED <<web, db, ing, runs, line, parsed, pair, keyed, evals>>

\* One run of ingest for an evaluation that does not end meanwhile, and the
\* command any number of times.
NextGcIngest ==
    \/ runs.count = 0 /\ \E p \in DOMAIN ing : Ingest(p)
    \/ \E p \in DOMAIN ing : BulkCreateMaintainers(p)
    \/ \E p \in DOMAIN ing : InBulkMaintainers(p)
    \/ \E p \in DOMAIN ing : BulkCreateLicenses(p)
    \/ \E p \in DOMAIN ing : InBulkLicenses(p)
    \/ \E p \in DOMAIN ing : BulkCreateMetadata(p)
    \/ \E p \in DOMAIN ing : BulkCreateMaintainersThrough(p)
    \/ \E p \in DOMAIN ing : BulkCreateLicensesThrough(p)
    \/ \E p \in DOMAIN ing : BulkCreateDerivations(p)
    \/ \E p \in DOMAIN ing : Return(p)
    \/ \E batch_size \in BatchSizes : GcQueryConcurrent(batch_size)
    \/ GcDelete
    \/ GcReturn
    \/ GcExit

SpecGcIngest == Init /\ [][NextGcIngest]_vars

-----------------------------------------------------------------------------
(* webview: the notifications of one user and the counter of the unread    *)
(* ones kept in the user's Profile.  Every call starts from a Profile or   *)
(* Notification instance loaded for it, and every statement outside        *)
(* transaction.atomic() is committed on its own.                           *)

\* Calls made in one behaviour, all processes together.
MaxCalls == 5

Unread(notifications) == {n \in notifications : ~n.is_read}

Read(notifications) == {n \in notifications : n.is_read}

\* The counter that always goes up
ToggledCount_up(is_read, unread_notifications_count) ==
    unread_notifications_count + 1

\* toggle_read: the counter of the Profile instance after the notification
\* has been given the read status is_read.
ToggledCount(is_read, unread_notifications_count) ==
    IF ~is_read THEN unread_notifications_count + 1
    ELSE IF unread_notifications_count - 1 > 0
    THEN unread_notifications_count - 1 ELSE 0

WebOps == {"create_notification", "mark_all_read_for_user", "clear_read_for_user"}

FirstPc ==
    [create_notification |-> "create", mark_all_read_for_user |-> "count_unread",
     clear_read_for_user |-> "count_read"]

RequestOver(p) == [web.requests EXCEPT ![p] = NoRequest]

\* Profile.objects.get(user=user): the caller of create_notification,
\* mark_all_read_for_user or clear_read_for_user loads the Profile row.
GetProfile(p, op) ==
    /\ web.requests[p].pc = "idle"
    /\ web.calls < MaxCalls
    /\ web' = [web EXCEPT !.calls = @ + 1, !.requests[p] =
                  [NoRequest EXCEPT !.pc = FirstPc[op], !.op = op,
                                    !.unread_notifications_count =
                                        web.unread_notifications_count]]
    /\ UNCHANGED <<db, ing, runs, line, parsed, pair, keyed, evals, gc>>

\* ToggleNotificationReadView.post: the Notification row is loaded, the
\* Profile row with it (select_related).
GetNotification(p, n) ==
    /\ web.requests[p].pc = "idle"
    /\ web.calls < MaxCalls
    /\ n \in web.notifications
    /\ web' = [web EXCEPT !.calls = @ + 1, !.requests[p] =
                  [NoRequest EXCEPT !.pc = "toggle", !.op = "toggle_read",
                                    !.notification = n,
                                    !.unread_notifications_count =
                                        web.unread_notifications_count]]
    /\ UNCHANGED <<db, ing, runs, line, parsed, pair, keyed, evals, gc>>

\* create_notification: SuggestionNotification.objects.create(...)
CreateNotification(p) ==
    /\ web.requests[p].pc = "create"
    /\ web' = [web EXCEPT !.notifications =
                              @ \cup {[id |-> web.next_id, is_read |-> FALSE]},
                          !.next_id = @ + 1,
                          !.requests[p].pc = "save_created"]
    /\ UNCHANGED <<db, ing, runs, line, parsed, pair, keyed, evals, gc>>

\* create_notification: the instance's counter plus one is saved.
SaveCreated(p) ==
    /\ web.requests[p].pc = "save_created"
    /\ web' = [web EXCEPT !.unread_notifications_count =
                              web.requests[p].unread_notifications_count + 1,
                          !.requests = RequestOver(p)]
    /\ UNCHANGED <<db, ing, runs, line, parsed, pair, keyed, evals, gc>>

\* toggle_read: the transaction.  The instance's is_read is negated and
\* saved, the instance's counter adjusted and saved.  save(update_fields)
\* of a row that is gone raises and the transaction is rolled back.
ToggleRead(p) ==
    LET self == web.requests[p].notification
        is_read == ~self.is_read
    IN /\ web.requests[p].pc = "toggle"
       /\ IF \E n \in web.notifications : n.id = self.id
          THEN web' = [web EXCEPT
                          !.notifications =
                              {IF n.id = self.id
                               THEN [n EXCEPT !.is_read = is_read] ELSE n :
                                   n \in web.notifications},
                          !.unread_notifications_count =
                              ToggledCount(is_read,
                                  web.requests[p].unread_notifications_count),
                          !.requests = RequestOver(p)]
          ELSE web' = [web EXCEPT !.requests = RequestOver(p)]
       /\ UNCHANGED <<db, ing, runs, line, parsed, pair, keyed, evals, gc>>

\* mark_all_read_for_user: unread.count()
CountUnread(p) ==
    /\ web.requests[p].pc = "count_unread"
    /\ LET unread_count == Cardinality(Unread(web.notifications)) IN
       web' = IF unread_count > 0
              THEN [web EXCEPT !.requests[p].count = unread_count,
                               !.requests[p].pc = "update_unread"]
              ELSE [web EXCEPT !.requests = RequestOver(p)]
    /\ UNCHANGED <<db, ing, runs, line, parsed, pair, keyed, evals, gc>>

\* mark_all_read_for_user: unread.update(is_read=True)
UpdateUnread(p) ==
    /\ web.requests[p].pc = "update_unread"
    /\ web' = [web EXCEPT !.notifications =
                              {[n EXCEPT !.is_read = TRUE] : n \in web.notifications},
                          !.requests[p].pc = "save_marked"]
    /\ UNCHANGED <<db, ing, runs, line, parsed, pair, keyed, evals, gc>>

\* mark_all_read_for_user: the counter is saved as 0.
SaveMarked(p) ==
    /\ web.requests[p].pc = "save_marked"
    /\ web' = [web EXCEPT !.unread_notifications_count = 0,
                          !.requests = RequestOver(p)]
    /\ UNCHANGED <<db, ing, runs, line, parsed, pair, keyed, evals, gc>>

\* clear_read_for_user: read.count()
CountRead(p) ==
    /\ web.requests[p].pc = "count_read"
    /\ LET count == Cardinality(Read(web.notifications)) IN
       web' = IF count > 0
              THEN [web EXCEPT !.requests[p].count = count,
                               !.requests[p].pc = "delete_read"]
              ELSE [web EXCEPT !.requests = RequestOver(p)]
    /\ UNCHANGED <<db, ing, runs, line, parsed, pair, keyed, evals, gc>>

\* clear_read_for_user: read.delete()
DeleteRead(p) ==
    /\ web.requests[p].pc = "delete_read"
    /\ web' = [web EXCEPT !.notifications = Unread(web.notifications),
                          !.requests = RequestOver(p)]
    /\ UNCHANGED <<db, ing, runs, line, parsed, pair, keyed, evals, gc>>

NextNotify ==
    \/ \E p \in DOMAIN web.requests, op \in WebOps : GetProfile(p, op)
    \/ \E p \in DOMAIN web.requests, n \in web.notifications : GetNotification(p, n)
    \/ \E p \in DOMAIN web.requests : CreateNotification(p)
    \/ \E p \in DOMAIN web.requests : SaveCreated(p)
    \/ \E p \in DOMAIN web.requests : ToggleRead(p)
    \/ \E p \in DOMAIN web.requests : CountUnread(p)
    \/ \E p \in DOMAIN web.requests : UpdateUnread(p)
    \/ \E p \in DOMAIN web.requests : SaveMarked(p)
    \/ \E p \in DOMAIN web.requests : CountRead(p)
    \/ \E p \in DOMAIN web.requests : DeleteRead(p)

\* One process: the calls come one after the other.
InitNotify ==
    /\ db = EmptyStore
    /\ ing = [p \in {"ingester"} |-> Idle]
    /\ runs = [count |-> 0, attributes |-> 0]
    /\ line = NoLine
    /\ parsed = NoResult
    /\ pair = NoPair
    /\ keyed = NoKeys
    /\ evals = NoStates
    /\ gc = GcIdle
    /\ web = WebState({"web"})

SpecNotify == InitNotify /\ [][NextNotify]_vars

\* The web application and the listener of suggestion inserts, or two
\* workers of either.
InitNotifyConc ==
    /\ db = EmptyStore
    /\ ing = [p \in {"ingester"} |-> Idle]
    /\ runs = [count |-> 0, attributes |-> 0]
    /\ line = NoLine
    /\ parsed = NoResult
    /\ pair = NoPair
    /\ keyed = NoKeys
    /\ evals = NoStates
    /\ gc = GcIdle
    /\ web = WebState({"web", "listener"})

SpecNotifyConc == InitNotifyConc /\ [][NextNotify]_vars

-----------------------------------------------------------------------------
(* webview: the lists of suggestions.  A suggestion has a status, the      *)
(* packages it was matched with (original_packages of its cached payload)  *)
(* and, of these, the ones a user has ignored; the payload's `packages`    *)
(* are kept in step with the edits by the ignore and restore views.        *)

MaxSuggestions == 2

\* CVEDerivationClusterProposal.Status, by the members the list views name.
Statuses == {"PENDING", "ACCEPTED", "REJECTED", "PUBLISHED"}

PackageNames == {"foo", "bar"}

\* apply_package_edits(original_packages, package_edits): the packages that
\* are not ignored.
ApplyPackageEdits(original_packages, ignored) == original_packages \ ignored

CachedSuggestion(status, original_packages, ignored) ==
    [status |-> status, original_packages |-> original_packages,
     ignored |-> ignored,
     packages |-> ApplyPackageEdits(original_packages, ignored)]

\* SuggestionListView.get_context_data: the query filter.
QueryFilters(status_filter, package_filter, suggestion) ==
    /\ status_filter # None => suggestion.status = status_filter
    /\ package_filter # None =>
          /\ package_filter \in suggestion.packages
          /\ suggestion.status # "PUBLISHED"

\* The suggestions of a list view with the class attribute status_filter
\* and the instance attribute package_filter.
SuggestionListView(status_filter, package_filter, suggestions) ==
    {id \in DOMAIN suggestions :
        QueryFilters(status_filter, package_filter, suggestions[id])}

\* SuggestionsByPackageView for the URL by-package/<package_name>?status=...:
\* package_filter is taken from the URL, status_filter is the class
\* attribute of SuggestionListView, and the query string is read for the
\* page number only.
SuggestionsByPackageView(package_name, status, suggestions) ==
    SuggestionListView(None, package_name, suggestions)

InitSearch ==
    /\ db = EmptyStore
    /\ ing = [p \in {"ingester"} |-> Idle]
    /\ runs = [count |-> 0, attributes |-> 0]
    /\ line = NoLine
    /\ parsed = NoResult
    /\ pair = NoPair
    /\ keyed = NoKeys
    /\ evals = NoStates
    /\ gc = GcIdle
    /\ \E n \in 1..MaxSuggestions :
          \E suggestions \in
                [1..n -> {CachedSuggestion(status, original_packages, {}) :
                             status \in Statuses,
                             original_packages \in SUBSET PackageNames}] :
              web = [NoWeb EXCEPT !.suggestions = suggestions]

\* IgnorePackageView.post
IgnorePackage(suggestion_id, package_attr) ==
    LET suggestion == web.suggestions[suggestion_id] IN
    /\ package_attr \in suggestion.original_packages
    /\ package_attr \notin suggestion.ignored
    /\ web' = [web EXCEPT !.suggestions[suggestion_id] =
                  CachedSuggestion(suggestion.status, suggestion.original_packages,
                                   suggestion.ignored \cup {package_attr}),
                          !.search = NoSearch]
    /\ UNCHANGED <<db, ing, runs, line, parsed, pair, keyed, evals, gc>>

\* RestorePackageView.post
RestorePackage(suggestion_id, package_attr) ==
    LET suggestion == web.suggestions[suggestion_id] IN
    /\ package_attr \in suggestion.ignored
    /\ web' = [web EXCEPT !.suggestions[suggestion_id] =
                  CachedSuggestion(suggestion.status, suggestion.original_packages,
                                   suggestion.ignored \ {package_attr}),
                          !.search = NoSearch]
    /\ UNCHANGED <<db, ing, runs, line, parsed, pair, keyed, evals, gc>>

\* GET by-package/<package_name>?status=<status>
SearchByPackage(package_name, status) ==
    /\ web' = [web EXCEPT !.search =
                  [done |-> TRUE, package_name |-> package_name, status |-> status,
                   shown |-> SuggestionsByPackageView(package_name, status,
                                                      web.suggestions)]]
    /\ UNCHANGED <<db, ing, runs, line, parsed, pair, keyed, evals, gc>>

NextSearch ==
    \/ \E id \in DOMAIN web.suggestions, a \in PackageNames : IgnorePackage(id, a)
    \/ \E id \in DOMAIN web.suggestions, a \in PackageNames : RestorePackage(id, a)
    \/ \E a \in PackageNames, status \in Statuses : SearchByPackage(a, status)

SpecSearch == InitSearch /\ [][NextSearch]_vars

-----------------------------------------------------------------------------
(* Properties of ingestion                                                 *)

Self == ing["ingester"]

\* Rows of table t that the current run has added to the store.
Written(t) == db.rows[t] \ Self.pre.rows[t]

BatchKeys == {as_key(Self.evaluations[i]) : i \in 1..Len(Self.evaluations)}

\* The maintainer and license entries of the whole batch.
BatchMaintainers ==
    UNION {Range(Self.evaluations[i].meta.v.maintainers) :
              i \in {j \in 1..Len(Self.evaluations) : Self.evaluations[j].meta.has}}

BatchLicenses ==
    UNION {Range(Self.evaluations[i].meta.v.license) :
              i \in {j \in 1..Len(Self.evaluations) : Self.evaluations[j].meta.has}}

RollingChannel == "unstable" \in Range(Self.parent_evaluation.channel_branch)

\* C1: when a run of ingest has completed, the number of Derivation rows it
\* wrote equals the number of distinct identity keys among the attributes of
\* its batch.
C1_DerivationsPerKey ==
    Self.pc = "done" =>
        Cardinality(Written("NixDerivation")) = Cardinality(BatchKeys)

\* A completed run whose batch holds two attributes with one identity key.
C1_Witness ==
    /\ Self.pc = "done"
    /\ Len(Self.evaluations) >= 2
    /\ Cardinality(BatchKeys) < Len(Self.evaluations)
    /\ Cardinality(Written("NixDerivation")) = Cardinality(BatchKeys)

\* C2: in every state, whatever runs came before and under whichever channel,
\* the store holds at most one Maintainer row per github_id and at most one
\* License row per spdx_id.
C2_OneRowPerId ==
    /\ \A r1 \in db.rows["NixMaintainer"], r2 \in db.rows["NixMaintainer"] :
          r1.github_id = r2.github_id => r1 = r2
    /\ \A r1 \in db.rows["NixLicense"], r2 \in db.rows["NixLicense"] :
          r1.spdx_id = r2.spdx_id => r1 = r2

\* A second run has completed on a batch that repeats an id the store held
\* before it, and the store still holds one row with that id.
C2_Witness ==
    /\ Self.pc = "done"
    /\ runs.count >= 2
    /\ \E r \in Self.pre.rows["NixMaintainer"] :
          /\ Cardinality({m \in BatchMaintainers : m.github_id = r.github_id}) >= 2
          /\ Cardinality({q \in db.rows["NixMaintainer"] :
                             q.github_id = r.github_id}) = 1
    /\ \E r \in Self.pre.rows["NixLicense"] :
          Cardinality({l \in BatchLicenses : l.spdx_id = r.spdx_id}) >= 2

\* C3: when a run under a rolling-release evaluation has completed, every
\* github_id (spdx_id) of its batch has exactly one row, and the row's
\* updatable fields are those of an entry of the batch with that id, also
\* when the row existed before the run with other values.
C3_RollingUpdates ==
    (Self.pc = "done" /\ RollingChannel) =>
        /\ \A m \in BatchMaintainers : m.github_id # None =>
              /\ Cardinality({r \in db.rows["NixMaintainer"] :
                                 r.github_id = m.github_id}) = 1
              /\ \A r \in db.rows["NixMaintainer"] : r.github_id = m.github_id =>
                    \E n \in BatchMaintainers :
                        /\ n.github_id = r.github_id
                        /\ \A f \in MaintainerUpdateFields : r[f] = n[f]
        /\ \A l \in BatchLicenses : l.spdx_id # None =>
              /\ Cardinality({r \in db.rows["NixLicense"] :
                                 r.spdx_id = l.spdx_id}) = 1
              /\ \A r \in db.rows["NixLicense"] : r.spdx_id = l.spdx_id =>
                    \E n \in BatchLicenses :
                        /\ n.spdx_id = r.spdx_id
                        /\ \A f \in LicenseUpdateFields : r[f] = n[f]

\* A rolling-release run has completed whose batch names maintainer 7 only as
\* "New" and license MIT only as "Expat", both stored with other values before.
C3_Witness ==
    /\ Self.pc = "done"
    /\ RollingChannel
    /\ \E r \in Self.pre.rows["NixMaintainer"] : r.github_id = "7" /\ r.name = "Old"
    /\ \E m \in BatchMaintainers : m.github_id = "7"
    /\ \A m \in BatchMaintainers : m.github_id = "7" => m.name = "New"
    /\ \E r \in db.rows["NixMaintainer"] : r.github_id = "7" /\ r.name = "New"
    /\ \E r \in Self.pre.rows["NixLicense"] :
          r.spdx_id = "MIT" /\ r.full_name = "MIT License"
    /\ \E l \in BatchLicenses : l.spdx_id = "MIT"
    /\ \A l \in BatchLicenses : l.spdx_id = "MIT" => l.full_name = "Expat"
    /\ \E r \in db.rows["NixLicense"] : r.spdx_id = "MIT" /\ r.full_name = "Expat"

\* C4: during and after a run under an evaluation that is not a rolling
\* release, every Maintainer and License row that existed before the run is
\* still in the store with every field unchanged, and no other row has its id.
C4_SnapshotKeeps ==
    (Self.pc # "idle" /\ ~RollingChannel) =>
        /\ \A r \in Self.pre.rows["NixMaintainer"] :
              {q \in db.rows["NixMaintainer"] : q.github_id = r.github_id} = {r}
        /\ \A r \in Self.pre.rows["NixLicense"] :
              {q \in db.rows["NixLicense"] : q.spdx_id = r.spdx_id} = {r}

\* A snapshot run has completed whose batch names maintainer 7 only as "New"
\* and license MIT only as "Expat", both stored with other values before.
C4_Witness ==
    /\ Self.pc = "done"
    /\ ~RollingChannel
    /\ \E r \in Self.pre.rows["NixMaintainer"] : r.github_id = "7" /\ r.name = "Old"
    /\ \E m \in BatchMaintainers : m.github_id = "7"
    /\ \A m \in BatchMaintainers : m.github_id = "7" => m.name = "New"
    /\ \E r \in Self.pre.rows["NixLicense"] :
          r.spdx_id = "MIT" /\ r.full_name = "MIT License"
    /\ \E l \in BatchLicenses : l.spdx_id = "MIT"
    /\ \A l \in BatchLicenses : l.spdx_id = "MIT" => l.full_name = "Expat"

\* C5: when a bulk store write of a run has failed and the run is aborted, the
\* store holds none of the rows the earlier steps of the run wrote: it is as
\* it was before the run.
C5_AbortLeavesNothing ==
    Self.pc = "raised" => db.rows = Self.pre.rows

\* C6: in every state, intermediate states of a run included, every
\* association row references a Metadata row and a Maintainer (License) row
\* that are in the store under a store-assigned primary key, and every
\* Derivation row with a metadata foreign key references a Metadata row that
\* is in the store.
C6_ReferencesExist ==
    LET pks(t) == {r.pk : r \in db.rows[t]} IN
    /\ \A t \in Tables : \A r \in db.rows[t] : r.pk >= 1 /\ r.pk < db.next_pk[t]
    /\ \A r \in db.rows["maintainers_through"] :
          /\ r.nixderivationmeta_id \in pks("NixDerivationMeta")
          /\ r.nixmaintainer_id \in pks("NixMaintainer")
    /\ \A r \in db.rows["licenses_through"] :
          /\ r.nixderivationmeta_id \in pks("NixDerivationMeta")
          /\ r.nixlicense_id \in pks("NixLicense")
    /\ \A r \in db.rows["NixDerivation"] :
          r.metadata # <<>> => r.metadata[1] \in pks("NixDerivationMeta")

\* A run has written its association rows of both kinds and not yet its
\* derivations.
C6_Witness ==
    /\ Self.pc = "bulk_create_derivations"
    /\ Written("maintainers_through") # {}
    /\ Written("licenses_through") # {}
    /\ Written("NixDerivation") = {}
    /\ \E i \in 1..Len(Self.bulk_derivations) :
          Self.bulk_derivations[i].v.metadata # <<>>

\* The attributes of the batch that carry metadata, in input order.
WithMeta == SelectSeq(Self.evaluations, LAMBDA a : a.meta.has)

\* C7: no Maintainer row has a null github_id and no License row a null
\* spdx_id; when a run has completed, each attribute with metadata has its
\* Metadata row, linked to exactly the maintainers and licenses of the
\* attribute whose id is not null, and every identity key has its Derivation.
C7_DropPolicy ==
    /\ \A r \in db.rows["NixMaintainer"] : r.github_id # None
    /\ \A r \in db.rows["NixLicense"] : r.spdx_id # None
    /\ Self.pc = "done" =>
          /\ Len(Self.db_metadata) = Len(WithMeta)
          /\ Cardinality(Written("NixDerivationMeta")) = Len(WithMeta)
          /\ Cardinality(Written("NixDerivation")) = Cardinality(BatchKeys)
          /\ \A i \in 1..Len(WithMeta) :
                /\ {q.github_id : q \in
                       {r \in db.rows["NixMaintainer"] :
                           \E t \in db.rows["maintainers_through"] :
                               /\ t.nixderivationmeta_id = Self.db_metadata[i].pk
                               /\ t.nixmaintainer_id = r.pk}}
                   = {m.github_id : m \in Range(WithMeta[i].meta.v.maintainers)}
                     \ {None}
                /\ {q.spdx_id : q \in
                       {r \in db.rows["NixLicense"] :
                           \E t \in db.rows["licenses_through"] :
                               /\ t.nixderivationmeta_id = Self.db_metadata[i].pk
                               /\ t.nixlicense_id = r.pk}}
                   = {l.spdx_id : l \in Range(WithMeta[i].meta.v.license)}
                     \ {None}

\* A run has completed on a batch with a maintainer entry without github_id
\* and a license entry without spdx_id, next to entries that have their id.
C7_Witness ==
    /\ Self.pc = "done"
    /\ \E m \in BatchMaintainers : m.github_id = None
    /\ \E l \in BatchLicenses : l.spdx_id = None
    /\ Written("maintainers_through") # {}
    /\ Written("licenses_through") # {}

-----------------------------------------------------------------------------
(* Properties of the identity key                                          *)

\* The metadata name of an attribute, None when it has no metadata.
MetaName(a) == IF a.meta.has THEN a.meta.v.name ELSE None

\* The same, an empty name counting as None.
MetaNameOrNone(a) ==
    IF ~a.meta.has \/ a.meta.v.name = "" THEN None ELSE a.meta.v.name

\* C8 as stated: the keys of two attributes are equal exactly when the
\* attributes agree on drv_path, attr, name and the metadata name (None
\* without metadata).
C8_KeyInjective ==
    keyed.done =>
        ((keyed.a = keyed.b) <=>
            /\ pair.a.drv_path = pair.b.drv_path
            /\ pair.a.attr = pair.b.attr
            /\ pair.a.name = pair.b.name
            /\ MetaName(pair.a) = MetaName(pair.b))

\* C8 amended: the keys of two attributes are equal exactly when the
\* attributes agree on drv_path, attr, name and the metadata name, where no
\* metadata, a null name and an empty name all count as null; system and the
\* other metadata fields play no part.
C8_KeyInjectiveUpToEmptyName ==
    keyed.done =>
        ((keyed.a = keyed.b) <=>
            /\ pair.a.drv_path = pair.b.drv_path
            /\ pair.a.attr = pair.b.attr
            /\ pair.a.name = pair.b.name
            /\ MetaNameOrNone(pair.a) = MetaNameOrNone(pair.b))

\* Two attributes that differ in system and in their maintainers and agree on
\* the four fields have been keyed, one with an empty metadata name and one
\* without metadata.
C8_Witness ==
    /\ keyed.done
    /\ keyed.a = keyed.b
    /\ pair.a.system # pair.b.system
    /\ pair.a.meta.has /\ pair.a.meta.v.name = ""
    /\ ~pair.b.meta.has

-----------------------------------------------------------------------------
(* Properties of the parser                                                *)

\* raw.get("error") is not None
HasError(raw) == "error" \in raw.keys /\ raw.error # None

\* C9: for a record whose error field is not null, parse_evaluation_result
\* returns a marker that carries the attribute path and the error text of the
\* record.
C9_FailureCarriesError ==
    (parsed.done /\ line.text.json /\ HasError(line.text.raw)) =>
        /\ ~parsed.result.raised
        /\ parsed.result.value.attr = line.text.raw.attr
        /\ parsed.result.value.attr_path = line.text.raw.attr_path
        /\ parsed.result.value.error = line.text.raw.error

EndToEndBatch(i, j) ==
    LET a == Self.evaluations[i]
        b == Self.evaluations[j]
    IN /\ ~a.meta.has
       /\ b.meta.has
       /\ b.meta.v.name = None
       /\ Len(b.meta.v.maintainers) = 1
       /\ b.meta.v.maintainers[1].github_id = "7"
       /\ Len(b.meta.v.license) = 1
       /\ b.meta.v.license[1].spdx_id = "MIT"
       /\ a.drv_path = b.drv_path
       /\ a.attr = b.attr
       /\ a.name = b.name
       /\ a.system # b.system

\* C14: a run on the empty store whose batch is two records with one
\* derivation path, attribute path and name, different systems, one without
\* metadata and one whose metadata has one maintainer (GitHub ID 7) and one
\* license (MIT) and nothing else, in either order, ends with exactly one
\* Derivation row, one
\* Maintainer row, one License row, one maintainer association and one
\* license association.
C14_EndToEnd ==
    (/\ Self.pc = "done"
     /\ Self.pre = EmptyStore
     /\ Len(Self.evaluations) = 2
     /\ EndToEndBatch(1, 2) \/ EndToEndBatch(2, 1)) =>
        /\ Cardinality(db.rows["NixDerivation"]) = 1
        /\ Cardinality(db.rows["NixMaintainer"]) = 1
        /\ Cardinality(db.rows["NixLicense"]) = 1
        /\ Cardinality(db.rows["maintainers_through"]) = 1
        /\ Cardinality(db.rows["licenses_through"]) = 1

\* The run has completed on the batch whose record with metadata comes first.
C14_Witness ==
    /\ Self.pc = "done"
    /\ Self.pre = EmptyStore
    /\ Len(Self.evaluations) = 2
    /\ EndToEndBatch(2, 1)
    /\ Cardinality(db.rows["NixDerivation"]) = 1
    /\ \E r \in db.rows["NixMaintainer"] : r.github_id = "7"
    /\ \E r \in db.rows["NixLicense"] : r.spdx_id = "MIT"

\* The positions of the batch that are the last with their identity key.
LastOfKey ==
    {i \in 1..Len(Self.evaluations) :
        \A j \in (i + 1)..Len(Self.evaluations) :
            as_key(Self.evaluations[j]) # as_key(Self.evaluations[i])}

\* C15 as stated: every Derivation row written by a completed run stores the
\* attribute name without the system suffix: "foo" for the attribute
\* "foo.x86_64-linux" of every record explored.
C15_SuffixStripped ==
    Self.pc = "done" =>
        \A r \in Written("NixDerivation") : r.attribute = <<"foo">>

\* C15, amended: every Derivation row written by a completed run belongs to
\* a record that is the last of its key in the batch, has that record's
\* system, and stores the record's attribute name without its last segment
\* when that segment is the record's own system, and whole otherwise.
C15_OwnSuffixStripped ==
    Self.pc = "done" =>
        \A r \in Written("NixDerivation") :
            \E i \in LastOfKey :
                LET a == Self.evaluations[i] IN
                /\ r.system = a.system
                /\ r.derivation_path = a.drv_path
                /\ r.attribute =
                      IF a.attr[Len(a.attr)] = a.system
                      THEN SubSeq(a.attr, 1, Len(a.attr) - 1)
                      ELSE a.attr

\* The end-to-end batch with the record of the other system seen last: the
\* row stores the attribute name whole.
C15_Witness ==
    /\ Self.pc = "done"
    /\ Len(Self.evaluations) = 2
    /\ EndToEndBatch(1, 2) \/ EndToEndBatch(2, 1)
    /\ \E r \in Written("NixDerivation") :
          /\ r.system = "aarch64-linux"
          /\ r.system = Self.evaluations[2].system
          /\ r.attribute = <<"foo", "x86_64-linux">>

\* The tables whose rows have a natural key, with the field that holds it.
NaturalKey == [NixMaintainer |-> "github_id", NixLicense |-> "spdx_id"]

\* C16: no step of ingestion removes or changes a Derivation, Metadata or
\* association row; a Maintainer or License row stays as it is unless the
\* run is under the rolling-release policy, and then it stays in the store
\* with its primary key and its natural key.
C16_NoDeleteNoMutate ==
    [][/\ \A t \in Tables \ DOMAIN NaturalKey : db.rows[t] \subseteq db'.rows[t]
       /\ \A t \in DOMAIN NaturalKey :
             \A r \in db.rows[t] :
                 \/ r \in db'.rows[t]
                 \/ /\ Self.rolling_release
                    /\ \E q \in db'.rows[t] :
                          q.pk = r.pk /\ q[NaturalKey[t]] = r[NaturalKey[t]]]_vars

\* A run under the rolling-release policy has completed on a store that held
\* rows of every table: all of them are kept, a Maintainer row with new
\* field values.
C16_Witness ==
    /\ Self.pc = "done"
    /\ Self.rolling_release
    /\ \A t \in Tables : Self.pre.rows[t] # {}
    /\ \A t \in Tables \ DOMAIN NaturalKey : Self.pre.rows[t] \subseteq db.rows[t]
    /\ \E r \in Self.pre.rows["NixMaintainer"] :
          /\ r \notin db.rows["NixMaintainer"]
          /\ \E q \in db.rows["NixMaintainer"] : q.pk = r.pk

\* The maintainer entries (kind "m") or license entries (kind "l") of the
\* i-th record of the batch, the field that identifies one, and the
\* candidate made of one.
Entries(kind, i) ==
    LET a == Self.evaluations[i] IN
    IF ~a.meta.has THEN <<>>
    ELSE IF kind = "m" THEN a.meta.v.maintainers ELSE a.meta.v.license

IdOf(kind, entry) == IF kind = "m" THEN entry.github_id ELSE entry.spdx_id

CandidateOf(kind, entry) ==
    IF kind = "m" THEN NixMaintainer(entry) ELSE NixLicense(entry)

Candidates(kind) ==
    IF kind = "m" THEN Self.bulk_maintainers ELSE Self.bulk_licenses

\* The occurrences <<i, j>> of id k: entry j of record i.
Occurrences(kind, k) ==
    UNION {{<<i, j>> : j \in {x \in 1..Len(Entries(kind, i)) :
                                  IdOf(kind, Entries(kind, i)[x]) = k}} :
              i \in 1..Len(Self.evaluations)}

\* The occurrence that comes last in input order.
LastOccurrence(kind, k) ==
    CHOOSE o \in Occurrences(kind, k) :
        \A q \in Occurrences(kind, k) :
            q[1] < o[1] \/ (q[1] = o[1] /\ q[2] <= o[2])

\* The first occurrence within the last record that has one.
FirstOfLastRecord(kind, k) ==
    CHOOSE o \in Occurrences(kind, k) :
        \A q \in Occurrences(kind, k) :
            q[1] < o[1] \/ (q[1] = o[1] /\ q[2] >= o[2])

\* C18 as stated: the candidate kept for a GitHub ID or an SPDX id carries
\* the field values of the last occurrence of the id in the batch, in input
\* order, be it in another record or in the same list.
C18_LastSeenWins ==
    Self.pc # "idle" =>
        \A kind \in {"m", "l"} :
            \A c \in 1..Len(Candidates(kind)) :
                LET k == Candidates(kind)[c].k
                    o == LastOccurrence(kind, k)
                IN Candidates(kind)[c].v = CandidateOf(kind, Entries(kind, o[1])[o[2]])

\* C18, amended: when the loop of ingest is over, and still when ingest has
\* completed, the candidate kept for a GitHub ID or an SPDX id carries
\* the field values of the first occurrence of the id in the list of the
\* last record that has the id; a run that inserts the row, or runs under
\* the rolling-release policy, leaves a row with these values.
C18_LastRecordFirstEntryWins ==
    Self.pc \in {"bulk_create_maintainers", "done"} =>
        \A kind \in {"m", "l"} :
            \A c \in 1..Len(Candidates(kind)) :
                LET k == Candidates(kind)[c].k
                    o == FirstOfLastRecord(kind, k)
                    v == Candidates(kind)[c].v
                    t == IF kind = "m" THEN "NixMaintainer" ELSE "NixLicense"
                IN /\ v = CandidateOf(kind, Entries(kind, o[1])[o[2]])
                   /\ (/\ Self.pc = "done"
                       /\ \/ Self.rolling_release
                          \/ \A r \in Self.pre.rows[t] : r[NaturalKey[t]] # k) =>
                          \E r \in db.rows[t] : \A f \in DOMAIN v : r[f] = v[f]

\* A run has completed on a batch in which GitHub ID 7 occurs twice, with
\* different names, in the list of one record: the row has the name that
\* comes first.
C18_Witness ==
    /\ Self.pc = "done"
    /\ Len(Self.evaluations) = 1
    /\ Cardinality(Occurrences("m", "7")) = 2
    /\ Entries("m", 1)[1].name # Entries("m", 1)[2].name
    /\ \E r \in Written("NixMaintainer") :
          r.github_id = "7" /\ r.name = Entries("m", 1)[1].name

\* The Derivation rows of the current run that refer to Metadata row m.
ReferringTo(m) == {d \in Written("NixDerivation") : d.metadata = <<m.pk>>}

\* C22 as stated: when a run has completed, every Metadata row it wrote is
\* referred to by exactly one Derivation row it wrote, and it wrote as many
\* Metadata rows as Derivation rows with a foreign key, whatever keys the
\* attributes of the batch share.
C22_MetadataOneToOne ==
    Self.pc = "done" =>
        /\ \A m \in Written("NixDerivationMeta") : Cardinality(ReferringTo(m)) = 1
        /\ Cardinality(Written("NixDerivationMeta"))
              = Cardinality({d \in Written("NixDerivation") : d.metadata # <<>>})

\* C22, amended: when a run has completed, it has written one Metadata row
\* per attribute with metadata; each is referred to by at most one
\* Derivation row, every foreign key of a Derivation row written refers to
\* one of them, and those referred to are as many as the keys whose last
\* attribute has metadata, so that all are referred to when no two
\* attributes of the batch share a key.
C22_MetadataAtMostOne ==
    Self.pc = "done" =>
        /\ Cardinality(Written("NixDerivationMeta")) = Len(WithMeta)
        /\ \A m \in Written("NixDerivationMeta") : Cardinality(ReferringTo(m)) <= 1
        /\ \A d \in Written("NixDerivation") :
              d.metadata # <<>> =>
                  \E m \in Written("NixDerivationMeta") : d.metadata = <<m.pk>>
        /\ Cardinality({m \in Written("NixDerivationMeta") : ReferringTo(m) # {}})
              = Cardinality({i \in LastOfKey : Self.evaluations[i].meta.has})
        /\ Cardinality(BatchKeys) = Len(Self.evaluations) =>
              \A m \in Written("NixDerivationMeta") : Cardinality(ReferringTo(m)) = 1

\* A run has completed on a batch of two attributes with metadata and one
\* key: two Metadata rows, one of them without Derivation.
C22_Witness ==
    /\ Self.pc = "done"
    /\ Len(Self.evaluations) = 2
    /\ Len(WithMeta) = 2
    /\ Cardinality(BatchKeys) = 1
    /\ Cardinality(Written("NixDerivationMeta")) = 2
    /\ \E m \in Written("NixDerivationMeta") : ReferringTo(m) = {}

\* The place, in the run's list of metadata objects, of the metadata of the
\* i-th record of the batch.
MetadataIndex(i) ==
    Cardinality({j \in 1..i : Self.evaluations[j].meta.has})

\* The records of the batch that have the identity key of the i-th.
SameKey(i) ==
    {j \in 1..Len(Self.evaluations) :
        as_key(Self.evaluations[j]) = as_key(Self.evaluations[i])}

\* C23: when a run has completed, it has written one Derivation row per
\* identity key, and the row of a key carries the system of the record seen
\* last with that key and, for Metadata foreign key, the Metadata row made
\* from that record's metadata, or null if that record has no metadata.
C23_LastWriterWins ==
    Self.pc = "done" =>
        /\ Cardinality(Written("NixDerivation")) = Cardinality(LastOfKey)
        /\ \A i \in LastOfKey :
              LET a == Self.evaluations[i] IN
              \E r \in Written("NixDerivation") :
                  /\ r.derivation_path = a.drv_path
                  /\ r.name = a.name
                  /\ r.system = a.system
                  /\ IF a.meta.has
                     THEN /\ r.metadata = <<Self.db_metadata[MetadataIndex(i)].pk>>
                          /\ WithPk(NixDerivationMeta(a.meta.v), r.metadata[1])
                                \in Written("NixDerivationMeta")
                     ELSE r.metadata = <<>>

\* A completed run on two records of one key and different systems, the
\* first with metadata and the last without: the one row has the system of
\* the last and a null foreign key.
C23_Witness ==
    /\ Self.pc = "done"
    /\ Len(Self.evaluations) = 2
    /\ SameKey(1) = {1, 2}
    /\ Self.evaluations[1].system # Self.evaluations[2].system
    /\ Self.evaluations[1].meta.has
    /\ ~Self.evaluations[2].meta.has
    /\ \E r \in Written("NixDerivation") :
          /\ Written("NixDerivation") = {r}
          /\ r.system = Self.evaluations[2].system
          /\ r.metadata = <<>>

\* The ids that are not null among the maintainer (kind "m") or license
\* (kind "l") entries of the k-th record with metadata.
RepresentableIds(kind, k) ==
    LET v == WithMeta[k].meta.v IN
    (IF kind = "m" THEN {m.github_id : m \in Range(v.maintainers)}
     ELSE {l.spdx_id : l \in Range(v.license)}) \ {None}

\* The store rows with a given github_id, with a given spdx_id.
MaintainerRows(g) == {r \in db.rows["NixMaintainer"] : r.github_id = g}

LicenseRows(s) == {r \in db.rows["NixLicense"] : r.spdx_id = s}

\* C24: no two Maintainer rows share a github_id and no two License rows a
\* spdx_id; the lookup of the ids of the batch among the rows read back
\* never fails; and when a run has completed, the association rows it wrote
\* are exactly, for every Metadata row it wrote, one per id that is not null
\* of the record the Metadata row was made from, pointing at the store row
\* with that id.
C24_AssociationsMatch ==
    /\ \A r, q \in db.rows["NixMaintainer"] : r.github_id = q.github_id => r = q
    /\ \A r, q \in db.rows["NixLicense"] : r.spdx_id = q.spdx_id => r = q
    /\ Self.pc = "bulk_create_maintainers_through" => ~LookupFails(Self)
    /\ Self.pc = "done" =>
          /\ Written("NixDerivationMeta") = Range(Self.db_metadata)
          /\ {<<t.nixderivationmeta_id, t.nixmaintainer_id>> :
                 t \in Written("maintainers_through")}
             = UNION {{<<Self.db_metadata[k].pk, r.pk>> :
                          r \in UNION {MaintainerRows(g) :
                                          g \in RepresentableIds("m", k)}} :
                      k \in 1..Len(WithMeta)}
          /\ {<<t.nixderivationmeta_id, t.nixlicense_id>> :
                 t \in Written("licenses_through")}
             = UNION {{<<Self.db_metadata[k].pk, r.pk>> :
                          r \in UNION {LicenseRows(s) :
                                          s \in RepresentableIds("l", k)}} :
                      k \in 1..Len(WithMeta)}
          /\ \A k \in 1..Len(WithMeta) :
                /\ \A g \in RepresentableIds("m", k) : MaintainerRows(g) # {}
                /\ \A s \in RepresentableIds("l", k) : LicenseRows(s) # {}

\* A completed run under the snapshot policy whose batch names a maintainer
\* the store already held with other field values: the insert was ignored,
\* and the association row written points at the row that was there.
C24_Witness ==
    /\ Self.pc = "done"
    /\ ~Self.rolling_release
    /\ \E r \in Self.pre.rows["NixMaintainer"] :
          /\ r \in db.rows["NixMaintainer"]
          /\ \E m \in BatchMaintainers :
                m.github_id = r.github_id /\ WithPk(NixMaintainer(m), r.pk) # r
          /\ \E t \in Written("maintainers_through") : t.nixmaintainer_id = r.pk
          /\ \E k \in 1..Len(WithMeta) :
                /\ r.github_id \in RepresentableIds("m", k)
                /\ \E m \in Range(WithMeta[k].meta.v.maintainers) : m.github_id = None

\* The records of the batch without metadata.
WithoutMeta == {i \in 1..Len(Self.evaluations) : ~Self.evaluations[i].meta.has}

\* The Derivation rows written for the i-th record with a null foreign key.
NullMetadataRows(i) ==
    {r \in Written("NixDerivation") :
        /\ r.derivation_path = Self.evaluations[i].drv_path
        /\ r.name = Self.evaluations[i].name
        /\ r.system = Self.evaluations[i].system
        /\ r.metadata = <<>>}

\* What a record without metadata leaves out: the run has as many metadata
\* objects, Metadata rows and candidate lists as records with metadata, and
\* a batch of records without metadata writes no Metadata, Maintainer,
\* License or association row.
NothingButDerivation ==
    /\ Len(Self.metadata) = Len(WithMeta)
    /\ Len(Self.meta_maintainers) = Len(WithMeta)
    /\ Len(Self.meta_licenses) = Len(WithMeta)
    /\ Cardinality(Written("NixDerivationMeta")) = Len(WithMeta)
    /\ WithoutMeta = 1..Len(Self.evaluations) =>
          /\ Self.bulk_maintainers = <<>>
          /\ Self.bulk_licenses = <<>>
          /\ \A t \in Tables \ {"NixDerivation"} : Written(t) = {}

\* C25 as stated: when a run has completed, every record of its batch
\* without metadata has a Derivation row with a null Metadata foreign key,
\* and no Metadata row, candidate or association row.
C25_NullMetaRow ==
    Self.pc = "done" =>
        /\ \A i \in WithoutMeta : NullMetadataRows(i) # {}
        /\ NothingButDerivation

\* C25, amended: when a run has completed, every record of its batch without
\* metadata that is the last of its identity key has a Derivation row with
\* a null Metadata foreign key, and no record without metadata has a
\* Metadata row, candidate or association row.
C25_LastNullMetaRow ==
    Self.pc = "done" =>
        /\ \A i \in WithoutMeta \cap LastOfKey : NullMetadataRows(i) # {}
        /\ NothingButDerivation

\* A completed run on a record with metadata followed by a record without,
\* of another key: two Derivation rows, one with a null foreign key, and
\* one Metadata row.
C25_Witness ==
    /\ Self.pc = "done"
    /\ Len(Self.evaluations) = 2
    /\ WithoutMeta = {2}
    /\ LastOfKey = {1, 2}
    /\ NullMetadataRows(2) # {}
    /\ Cardinality(Written("NixDerivation")) = 2
    /\ Cardinality(Written("NixDerivationMeta")) = 1

\* The candidates of the run for a table with a natural key, by id, and the
\* step of the run that writes them.
BulkOf(t) ==
    IF t = "NixMaintainer" THEN Self.bulk_maintainers ELSE Self.bulk_licenses

WritePcOf(t) ==
    IF t = "NixMaintainer" THEN "bulk_create_maintainers" ELSE "bulk_create_licenses"

ReadPcOf(t) ==
    IF t = "NixMaintainer" THEN "in_bulk_maintainers" ELSE "in_bulk_licenses"

\* C26: the Maintainer and License rows change only in the step of a run
\* that writes its candidates.  After that step every id of the batch has
\* one row: with the field values of the batch's candidate if the id had no
\* row (first batch that contains it) or the run's channel is the rolling
\* release (most recent rolling batch), the primary key of the row it had
\* kept; the very row it had if the channel is a snapshot.  Rows of ids
\* that are not in the batch are left as they are.
C26_RollingOrFirst ==
    [][\A t \in DOMAIN NaturalKey :
          IF ~(Self.pc = WritePcOf(t) /\ Self'.pc = ReadPcOf(t))
          THEN db'.rows[t] = db.rows[t]
          ELSE /\ \A q \in db'.rows[t] :
                     q \in db.rows[t] \/ DictHas(BulkOf(t), q[NaturalKey[t]])
               /\ \A r \in db.rows[t] :
                     ~DictHas(BulkOf(t), r[NaturalKey[t]]) => r \in db'.rows[t]
               /\ \A i \in 1..Len(BulkOf(t)) :
                     LET olds == {r \in db.rows[t] :
                                     r[NaturalKey[t]] = BulkOf(t)[i].k}
                         news == {q \in db'.rows[t] :
                                     q[NaturalKey[t]] = BulkOf(t)[i].k}
                     IN /\ Cardinality(news) = 1
                        /\ \A q \in news :
                              IF olds = {}
                              THEN q = WithPk(BulkOf(t)[i].v, q.pk)
                              ELSE IF RollingChannel
                              THEN /\ q = WithPk(BulkOf(t)[i].v, q.pk)
                                   /\ q.pk \in {r.pk : r \in olds}
                              ELSE q \in olds]_vars

\* A run on a snapshot channel has completed on a batch with a maintainer
\* the store held with other field values and a maintainer it did not hold:
\* the first row is as it was, the second has the values of the batch.
C26_Witness ==
    /\ Self.pc = "done"
    /\ ~RollingChannel
    /\ \E i \in 1..Len(Self.bulk_maintainers) :
          \E r \in Self.pre.rows["NixMaintainer"] :
              /\ r.github_id = Self.bulk_maintainers[i].k
              /\ r # WithPk(Self.bulk_maintainers[i].v, r.pk)
              /\ r \in db.rows["NixMaintainer"]
    /\ \E i \in 1..Len(Self.bulk_maintainers) :
          \E q \in Written("NixMaintainer") :
              q = WithPk(Self.bulk_maintainers[i].v, q.pk)

\* The ids of an entry list that occur in it more than once.
Repeated(kind, entries) ==
    {IdOf(kind, entries[i]) : i \in
        {j \in 1..Len(entries) :
            \E h \in 1..Len(entries) :
                h # j /\ IdOf(kind, entries[h]) = IdOf(kind, entries[j])}} \ {None}

\* C30: no two association rows of the store link one Metadata row to
\* Maintainer rows of one github_id, or to License rows of one spdx_id.
C30_NoDuplicateAssociations ==
    /\ \A t, u \in db.rows["maintainers_through"] :
          (/\ t.nixderivationmeta_id = u.nixderivationmeta_id
           /\ \E r, q \in db.rows["NixMaintainer"] :
                 /\ r.pk = t.nixmaintainer_id
                 /\ q.pk = u.nixmaintainer_id
                 /\ r.github_id = q.github_id) => t = u
    /\ \A t, u \in db.rows["licenses_through"] :
          (/\ t.nixderivationmeta_id = u.nixderivationmeta_id
           /\ \E r, q \in db.rows["NixLicense"] :
                 /\ r.pk = t.nixlicense_id
                 /\ q.pk = u.nixlicense_id
                 /\ r.spdx_id = q.spdx_id) => t = u

\* A completed run on a record whose maintainer list and license list each
\* name one id twice: its Metadata row has one association row of each kind.
C30_Witness ==
    /\ Self.pc = "done"
    /\ \E k \in 1..Len(WithMeta) :
          /\ Repeated("m", WithMeta[k].meta.v.maintainers) # {}
          /\ Repeated("l", WithMeta[k].meta.v.license) # {}
          /\ Cardinality({t \in Written("maintainers_through") :
                t.nixderivationmeta_id = Self.db_metadata[k].pk}) = 1
          /\ Cardinality({t \in Written("licenses_through") :
                t.nixderivationmeta_id = Self.db_metadata[k].pk}) = 1

-----------------------------------------------------------------------------
(* Properties of two ingesters at work on one store                        *)

Other == ing["other"]

\* A row without its primary key.
StripPk(r) == [f \in DOMAIN r \ {"pk"} |-> r[f]]

\* How many rows of S have each shape.
BagOf(S, Shape(_)) ==
    [x \in {Shape(r) : r \in S} |-> Cardinality({r \in S : Shape(r) = x})]

\* A Derivation row without its primary key and its foreign key to Metadata.
DerivationShape(d) == [f \in DOMAIN d \ {"pk", "metadata"} |-> d[f]]

\* A Metadata row with what hangs on it, primary keys resolved: the GitHub
\* IDs and SPDX ids it is associated with and the derivations that refer to
\* it.
MetaShape(store, m) ==
    [row |-> StripPk(m),
     maintainers |->
        BagOf({t \in store.rows["maintainers_through"] :
                  t.nixderivationmeta_id = m.pk},
              LAMBDA t : {r.github_id : r \in {q \in store.rows["NixMaintainer"] :
                                                  q.pk = t.nixmaintainer_id}}),
     licenses |->
        BagOf({t \in store.rows["licenses_through"] :
                  t.nixderivationmeta_id = m.pk},
              LAMBDA t : {r.spdx_id : r \in {q \in store.rows["NixLicense"] :
                                                q.pk = t.nixlicense_id}}),
     derivations |->
        BagOf({d \in store.rows["NixDerivation"] : d.metadata = <<m.pk>>},
              DerivationShape)]

\* The contents of a store up to the values of the primary keys.
Content(store) ==
    [maintainers |-> {StripPk(r) : r \in store.rows["NixMaintainer"]},
     licenses |-> {StripPk(r) : r \in store.rows["NixLicense"]},
     metadata |-> BagOf(store.rows["NixDerivationMeta"],
                        LAMBDA m : MetaShape(store, m)),
     derivations |->
        BagOf({d \in store.rows["NixDerivation"] :
                  \A m \in store.rows["NixDerivationMeta"] : d.metadata # <<m.pk>>},
              LAMBDA d : [row |-> DerivationShape(d), metadata |-> d.metadata]),
     associations |->
        [t \in {"maintainers_through", "licenses_through"} |->
            Cardinality(store.rows[t])]]

\* The two runs are for two evaluations, started on the same store, and no
\* GitHub ID and no SPDX id is a candidate of both.
DisjointRuns ==
    /\ Self.pc # "idle"
    /\ Other.pc # "idle"
    /\ Self.parent_evaluation.id # Other.parent_evaluation.id
    /\ Self.pre = Other.pre
    /\ Range(DictKeys(Self.bulk_maintainers))
          \cap Range(DictKeys(Other.bulk_maintainers)) = {}
    /\ Range(DictKeys(Self.bulk_licenses))
          \cap Range(DictKeys(Other.bulk_licenses)) = {}

\* C17: two runs for different evaluations that have no GitHub ID and no
\* SPDX id in common, their store operations interleaved in any way, never
\* raise, and when both have completed the store has the contents, up to
\* the values of the primary keys, that it has after the one run followed by
\* the other, in either order.
C17_InterleavedAsSequential ==
    DisjointRuns =>
        /\ Self.pc # "raised"
        /\ Other.pc # "raised"
        /\ (Self.pc = "done" /\ Other.pc = "done") =>
              /\ Content(db) = Content(ingest(ingest(Self.pre, Self), Other))
              /\ Content(db) = Content(ingest(ingest(Self.pre, Other), Self))

\* Both runs have completed on a store that held rows, each with a
\* maintainer and a license of its own, and their store operations were
\* interleaved: the one wrote its metadata first, the other its derivations.
C17_Witness ==
    /\ DisjointRuns
    /\ Self.pc = "done"
    /\ Other.pc = "done"
    /\ Self.pre.rows["NixDerivation"] # {}
    /\ Self.bulk_maintainers # <<>>
    /\ Other.bulk_maintainers # <<>>
    /\ Self.bulk_licenses # <<>>
    /\ Other.bulk_licenses # <<>>
    /\ \E d \in db.rows["NixDerivation"], e \in db.rows["NixDerivation"] :
          /\ d.parent_evaluation = Self.parent_evaluation.id
          /\ e.parent_evaluation = Other.parent_evaluation.id
          /\ d.pk < e.pk
          /\ d.metadata # <<>>
          /\ e.metadata # <<>>
          /\ d.metadata[1] > e.metadata[1]

-----------------------------------------------------------------------------
(* Properties of the fixup                                                 *)

\* The dict the first call was given, and its metadata block if it has one.
FixupInput == line.text.raw

HasMetaKey(raw, k) == "meta" \in raw.keys /\ raw.meta.has /\ k \in raw.meta.v.keys

FixedOnce == parsed.done /\ parsed.times = 1

\* C11: after the fixup the license field of the metadata is a list: the
\* string "unknown" has become the empty list, any other string a list of
\* one entry that has the string as full name and nothing else, a single
\* object a list of that object, and a list is left as it was; the
\* attribute returned carries the entries of that list.
C11_LicenseIsList ==
    (FixedOnce /\ HasMetaKey(FixupInput, "license")) =>
        LET given == FixupInput.meta.v.license
            fixed == parsed.now.raw.meta.v.license
        IN /\ fixed.t = "list"
           /\ (given.t = "str" /\ given.s = "unknown") => fixed.l = <<>>
           /\ (given.t = "str" /\ given.s # "unknown") =>
                  fixed.l = <<[fullName |-> given.s, spdxId |-> None]>>
           /\ given.t = "obj" => fixed.l = given.l
           /\ given.t = "list" => fixed = given
           /\ ~parsed.now.out.raised =>
                  /\ Len(parsed.now.out.value.meta.v.license) = Len(fixed.l)
                  /\ \A i \in 1..Len(fixed.l) :
                        parsed.now.out.value.meta.v.license[i]
                            = LicenseAttribute(fixed.l[i].fullName, fixed.l[i].spdxId)

\* The fixup has turned the string "unknown" into the empty list.
C11_Witness ==
    /\ FixedOnce
    /\ HasMetaKey(FixupInput, "license")
    /\ FixupInput.meta.v.license = LicenseStr("unknown")
    /\ parsed.now.raw.meta.v.license = LicenseList(<<>>)
    /\ ~parsed.now.out.raised
    /\ parsed.now.out.value.meta.v.license = <<>>

\* How many entries a maintainer entry expands to.
ExpandedSize(entry) == IF entry.shortName # None THEN Len(entry.members) ELSE 1

\* Where the expansion of entry i starts in the expanded list, less one.
RECURSIVE ExpandedBefore(_, _)
ExpandedBefore(maintainers, i) ==
    IF i <= 1 THEN 0
    ELSE ExpandedBefore(maintainers, i - 1) + ExpandedSize(maintainers[i - 1])

\* C12: the fixup replaces every team entry of the maintainer list, where it
\* stands, by its members in their order, and leaves the other entries in
\* place, so that no team entry remains and the attribute returned has one
\* maintainer per member and per plain entry.
C12_TeamsExpanded ==
    (FixedOnce /\ HasMetaKey(FixupInput, "maintainers")) =>
        LET given == FixupInput.meta.v.maintainers
            fixed == parsed.now.raw.meta.v.maintainers
        IN /\ Len(fixed) = ExpandedBefore(given, Len(given) + 1)
           /\ \A i \in 1..Len(given) :
                 IF given[i].shortName # None
                 THEN \A j \in 1..Len(given[i].members) :
                        fixed[ExpandedBefore(given, i) + j] = given[i].members[j]
                 ELSE fixed[ExpandedBefore(given, i) + 1] = given[i]
           /\ \A k \in 1..Len(fixed) : fixed[k].shortName = None
           /\ ~parsed.now.out.raised =>
                 /\ Len(parsed.now.out.value.meta.v.maintainers) = Len(fixed)
                 /\ \A k \in 1..Len(fixed) :
                       parsed.now.out.value.meta.v.maintainers[k]
                           = MaintainerAttribute(fixed[k].name, fixed[k].github,
                                                 fixed[k].githubId)

\* One team of two members and one plain entry have become three maintainers.
C12_Witness ==
    /\ FixedOnce
    /\ HasMetaKey(FixupInput, "maintainers")
    /\ Len(FixupInput.meta.v.maintainers) = 2
    /\ FixupInput.meta.v.maintainers[1].shortName # None
    /\ Len(FixupInput.meta.v.maintainers[1].members) = 2
    /\ FixupInput.meta.v.maintainers[2].shortName = None
    /\ ~parsed.now.out.raised
    /\ Len(parsed.now.out.value.meta.v.maintainers) = 3

\* C13: the fixup given the dict that an earlier call has repaired leaves
\* the dict as it is and returns what the earlier call returned.
C13_FixupIdempotent ==
    (parsed.done /\ parsed.times = 2) => parsed.now = parsed.before

\* The second call was given a dict in which the first had expanded a team
\* and wrapped a license.
C13_Witness ==
    /\ parsed.done
    /\ parsed.times = 2
    /\ parsed.before.raw # FixupInput
    /\ HasMetaKey(FixupInput, "maintainers")
    /\ \E i \in 1..Len(FixupInput.meta.v.maintainers) :
          FixupInput.meta.v.maintainers[i].shortName # None
    /\ FixupInput.meta.v.license.t # "list"
    /\ ~parsed.now.out.raised

-----------------------------------------------------------------------------
(* Properties of the parser on lines that are not JSON                     *)

\* C20: the parser given a line that is not well-formed JSON raises; it
\* returns neither a success nor a failure marker for the line.
C20_MalformedRaises ==
    (parsed.done /\ ~line.text.json) => parsed.result.raised

\* The parser has been given such a line and has raised the decoder's error.
C20_Witness ==
    /\ parsed.done
    /\ line.text = MalformedLine
    /\ parsed.result = Raised("JSONDecodeError")

-----------------------------------------------------------------------------
(* Properties of the garbage collector                                     *)

\* C19: when garbage_collect_derivations has completed, the store holds no
\* Derivation row, with or without metadata, of an evaluation in state
\* CRASHED or FAILED, and no Metadata row without a Derivation.
C19_CollectsEverything ==
    gc.pc = "done" =>
        /\ CrashedDerivations(db, evals) = {}
        /\ OrphanedMetadata(db) = {}

\* The Metadata rows of the run that the Derivation rows of the run are to
\* refer to: those of the records with metadata that are the last of their
\* identity key.
ReferencedMetadata ==
    {Self.db_metadata[MetadataIndex(i)] :
        i \in {j \in LastOfKey : Self.evaluations[j].meta.has}}

\* C27: while a run of ingest for an evaluation that has not crashed or
\* failed is between its Metadata write and its return, whatever the
\* command's queries and deletions in between, the Metadata rows its
\* Derivation rows are to refer to are in the store, and every Derivation
\* row of the evaluation in the store refers to no Metadata row or to one
\* that is in the store.
C27_GcSparesIngestion ==
    /\ Self.pc \in {"bulk_create_maintainers_through",
                    "bulk_create_licenses_through",
                    "bulk_create_derivations", "done"} =>
          ReferencedMetadata \subseteq db.rows["NixDerivationMeta"]
    /\ \A d \in db.rows["NixDerivation"] :
          (d.parent_evaluation = Self.parent_evaluation.id /\ d.metadata # <<>>) =>
              \E m \in db.rows["NixDerivationMeta"] : d.metadata = <<m.pk>>

-----------------------------------------------------------------------------
(* Properties of the notification counter                                  *)

\* No call is under way.
Quiescent == \A p \in DOMAIN web.requests : web.requests[p].pc = "idle"

\* C28: calls coming one after the other, between two calls the counter of
\* the profile is the number of unread notifications; it is never negative;
\* and no step of clear_read_for_user changes it.
C28_CounterIsUnread ==
    /\ [](/\ web.unread_notifications_count >= 0
          /\ Quiescent =>
                web.unread_notifications_count
                   = Cardinality(Unread(web.notifications)))
    /\ [][(\E p \in DOMAIN web.requests :
              web.requests[p].op = "clear_read_for_user") =>
             web'.unread_notifications_count = web.unread_notifications_count]_vars

\* Between two calls, after notifications have been created, one read and
\* the read ones cleared: one unread notification is there and counted.
C28_Witness ==
    /\ DOMAIN web.requests = {"web"}
    /\ Quiescent
    /\ web.next_id = 3
    /\ Cardinality(web.notifications) = 1
    /\ Unread(web.notifications) = web.notifications
    /\ web.unread_notifications_count = 1

\* C29: two processes at work for one user, whenever both are between two
\* calls the counter of the profile is the number of unread notifications.
C29_NoLostUpdate ==
    (DOMAIN web.requests = {"web", "listener"} /\ Quiescent) =>
        web.unread_notifications_count = Cardinality(Unread(web.notifications))

-----------------------------------------------------------------------------
(* Properties of the search by package                                     *)

\* C21: the list served for a package and a status holds exactly the
\* suggestions that have the package among their packages that are not
\* ignored and whose status is the one asked for.
C21_ByPackageAndStatus ==
    web.search.done =>
        web.search.shown =
            {id \in DOMAIN web.suggestions :
                /\ web.search.package_name \in web.suggestions[id].original_packages
                /\ web.search.package_name \notin web.suggestions[id].ignored
                /\ web.suggestions[id].status = web.search.status}

====
